---- MODULE Spec2Model ----
(***************************************************************************)
(* Verification model of the legal-document processing pipeline:           *)
(* DocumentSplitter, LegalDocumentParser and IntelligentChunker.           *)
(*                                                                         *)
(* A Python string is modelled as a sequence of tokens.  A token is one    *)
(* whitespace-delimited word: `len` is its number of characters, `gap` the *)
(* number of whitespace characters that follow it inside the string (the   *)
(* gap of the last token is not part of the string), `end` says that the   *)
(* last character of the word is a sentence-final mark ( . ؟ ! ؛ ) and     *)
(* `id` names the word, so that the origin of a word can be traced.        *)
(***************************************************************************)
EXTENDS Integers, Sequences, FiniteSets, TLC

VARIABLES
    cfg,             \* IntelligentChunker: min_chunk_size, max_chunk_size, chunk_overlap
    chunking_stats,  \* IntelligentChunker.chunking_stats
    document,        \* the document, article or chapter of the last chunk_document,
                     \* chunk_article or chunk_chapter call
    result,          \* what that call returned or raised
    batch,           \* the argument of the last chunk_documents_batch call
    report,          \* the ProcessingReport of the last chunk_documents_batch call
    all_chunks,      \* the chunk list returned by the last chunk_documents_batch call
    input_file,      \* the argument of the last split_document call
    splitter_laws,   \* DocumentSplitter.laws
    processing_stats,\* DocumentSplitter.processing_stats
    split_result,    \* what the last split_document call returned
    last_law_text,   \* the arguments of the last process_individual_law call
    law_metadata,    \* what the last process_individual_law call returned
    parsing_stats,   \* LegalDocumentParser.parsing_stats
    last_law_dict,   \* the argument of the last parse_document_from_dict call
    parsed,          \* what the last parse_document_from_dict call returned or raised
    field,           \* the field value handed to the last model constructor
    validated,       \* what the last model constructor returned or raised
    last_article,    \* the argument of the last parse_article call
    parsed_article,  \* what the last parse_article call returned
    last_chapter,    \* the argument of the last parse_chapter call
    parsed_chapter,  \* what the last parse_chapter call returned
    laws_file,       \* the arguments of the last parse_documents_batch call
    parsed_documents,\* what the last parse_documents_batch call returned
    input_text,      \* the argument of the last boundary extraction
    boundary_spans,  \* the spans the last boundary extraction returned
    raw_text,        \* the argument of the last PersianTextProcessor call
    processed_text,  \* what the last PersianTextProcessor call returned
    chunk_texts,     \* the argument of the last add_overlap_to_chunks call
    overlapped_chunks, \* what the last add_overlap_to_chunks call returned
    disk,            \* the files of OUTPUT_FILES and of the paths handed to a save
    save_args,       \* the arguments of the last save
    save_raised,     \* whether the last save raised
    split_content,   \* the argument of the last split_by_words or split_long_content call
    split_chunks,    \* what that call returned
    load,            \* number of inputs handed to the instances so far
    op               \* the operation that produced the current state

chunker_vars == <<cfg, chunking_stats, document, result, batch, report, all_chunks>>
splitter_vars == <<input_file, splitter_laws, processing_stats, split_result, last_law_text,
                   law_metadata>>
parser_vars == <<parsing_stats, last_law_dict, parsed, field, validated, last_article,
                 parsed_article, last_chapter, parsed_chapter, laws_file, parsed_documents>>
boundary_vars == <<input_text, boundary_spans>>
text_vars == <<raw_text, processed_text>>
save_vars == <<disk, save_args, save_raised>>
overlap_vars == <<chunk_texts, overlapped_chunks>>
packing_vars == <<split_content, split_chunks>>

vars == <<chunker_vars, splitter_vars, parser_vars, boundary_vars, text_vars, save_vars, overlap_vars,
          packing_vars, load, op>>

----------------------------------------------------------------------------
(* Python string primitives on token sequences *)

Tok(i, n, e) == [id |-> i, len |-> n, gap |-> 1, end |-> e]

\* the characters of the words lo..hi of t and of the whitespace after them;
\* the whitespace after the last word of t is not part of t
RECURSIVE SumLens(_, _, _)
SumLens(t, lo, hi) ==
    IF lo > hi THEN 0
    ELSE IF lo = hi THEN t[lo].len + (IF lo < Len(t) THEN t[lo].gap ELSE 0)
    ELSE SumLens(t, lo, (lo + hi) \div 2) + SumLens(t, (lo + hi) \div 2 + 1, hi)

\* len(s)
StrLen(t) == SumLens(t, 1, Len(t))

\* the word w followed by g whitespace characters
WithGap(w, g) == [id |-> w.id, len |-> w.len, gap |-> g, end |-> w.end]

\* the string t with g whitespace characters after its last word
EndingWith(t, g) == Append(SubSeq(t, 1, Len(t) - 1), WithGap(t[Len(t)], g))

\* s.strip(): the string never starts with whitespace; the trailing gap goes
Strip(t) == IF t = <<>> THEN t ELSE EndingWith(t, 0)

\* a + <g whitespace characters> + b, for non-empty a
Glue(a, g, b) == EndingWith(a, g) \o b

\* ' '.join(words)
JoinWords(words) ==
    [i \in 1..Len(words) |-> WithGap(words[i], IF i < Len(words) THEN 1 ELSE 0)]

\* seq[k:] for a negative k
PySliceFrom(s, k) ==
    IF Len(s) + k <= 0 THEN s ELSE SubSeq(s, Len(s) + k + 1, Len(s))

----------------------------------------------------------------------------
(* PersianTextProcessor.split_sentences *)

\* a sentence is kept only when it is longer than this many characters
SentenceMinLen == 10

\* re.split(r'[.؟!؛]\s+', text): a word that ends with a mark and is followed
\* by whitespace closes a piece; the mark and the whitespace are removed
SentenceEnds(t) ==
    SelectSeq([i \in 1..Len(t) |-> i], LAMBDA i : t[i].end /\ i < Len(t))

\* a piece that a mark closed: its last word loses the mark
ClosedPiece(piece) ==
    IF piece[Len(piece)].len = 1 THEN SubSeq(piece, 1, Len(piece) - 1)
    ELSE Append(SubSeq(piece, 1, Len(piece) - 1),
                [id |-> piece[Len(piece)].id, len |-> piece[Len(piece)].len - 1,
                 gap |-> piece[Len(piece)].gap, end |-> FALSE])

PieceStart(ends, k) == IF k = 1 THEN 1 ELSE ends[k - 1] + 1

SplitPieces(t, ends) ==
    [k \in 1..(Len(ends) + 1) |->
        IF k <= Len(ends) THEN ClosedPiece(SubSeq(t, PieceStart(ends, k), ends[k]))
        ELSE SubSeq(t, PieceStart(ends, k), Len(t))]

\* sentence.strip() for each piece; kept when non-empty and long enough
CleanedSentences(pieces) ==
    SelectSeq([i \in 1..Len(pieces) |-> Strip(pieces[i])],
              LAMBDA s : s # <<>> /\ StrLen(s) > SentenceMinLen)

split_sentences(t) ==
    IF t = <<>> THEN <<>>
    ELSE CleanedSentences(SplitPieces(Strip(t), SentenceEnds(Strip(t))))

----------------------------------------------------------------------------
(* IntelligentChunker: splitting *)

should_split_content(content, c) == StrLen(content) > c.max

\* current_length after the words lo..hi went into an empty current_chunk:
\* word_length = len(word) + 1 for each of them
RECURSIVE CurrentLength(_, _, _)
CurrentLength(words, lo, hi) ==
    IF lo > hi THEN 0
    ELSE IF lo = hi THEN words[lo].len + 1
    ELSE CurrentLength(words, lo, (lo + hi) \div 2)
         + CurrentLength(words, (lo + hi) \div 2 + 1, hi)

\* the last word of the chunk that word i opens: a word joins current_chunk
\* while current_length + word_length <= max_chunk_size, and the word that
\* opens a chunk always does
LastWordOfChunk(words, i, c) ==
    CHOOSE j \in i..Len(words) :
        /\ j = i \/ CurrentLength(words, i, j) <= c.max
        /\ j = Len(words) \/ CurrentLength(words, i, j + 1) > c.max

RECURSIVE SplitWordsFrom(_, _, _, _)

\* chunks.append(' '.join(current_chunk)) for the words i..j
WordChunk(words, i, j, chunks, c) ==
    SplitWordsFrom(words, j + 1, Append(chunks, JoinWords(SubSeq(words, i, j))), c)

SplitWordsFrom(words, i, chunks, c) ==
    IF i > Len(words) THEN chunks
    ELSE WordChunk(words, i, LastWordOfChunk(words, i, c), chunks, c)

split_by_words(content, c) == SplitWordsFrom(content, 1, <<>>, c)

\* chunk_overlap // 10 under a unary minus: the slice start (-chunk_overlap) // 10
OverlapDivisor == 10

OverlapSliceStart(c) == (0 - c.overlap) \div OverlapDivisor

\* one overlapped chunk: the words taken from prev_chunk are prepended when they fit
PrependOverlap(overlap_text, chunk, c) ==
    IF StrLen(overlap_text) + StrLen(chunk) <= c.max
    THEN Glue(overlap_text, 1, chunk)
    ELSE chunk

OverlapChunk(prev_chunk, chunk, c) ==
    PrependOverlap(JoinWords(PySliceFrom(prev_chunk, OverlapSliceStart(c))), chunk, c)

add_overlap_to_chunks(chunks, c) ==
    IF Len(chunks) <= 1 \/ c.overlap = 0 THEN chunks
    ELSE [i \in 1..Len(chunks) |->
            IF i = 1 THEN chunks[1] ELSE OverlapChunk(chunks[i - 1], chunks[i], c)]

\* if current_chunk: chunks.append(current_chunk.strip())
Flush(chunks, current_chunk) ==
    IF current_chunk # <<>> THEN Append(chunks, Strip(current_chunk)) ELSE chunks

\* current_chunk + " " + sentence if current_chunk else sentence
PotentialChunk(current_chunk, sentence) ==
    IF current_chunk # <<>> THEN Glue(current_chunk, 1, sentence) ELSE sentence

\* the sentence loop of split_long_content
RECURSIVE PackSentences(_, _, _, _, _)
RECURSIVE PackOne(_, _, _, _, _, _)
RECURSIVE PackWords(_, _, _, _, _)

\* a sentence longer than max_chunk_size: its last word chunk stays open
PackWords(sentences, i, saved, word_chunks, c) ==
    PackSentences(sentences, i + 1,
                  IF word_chunks # <<>> THEN word_chunks[Len(word_chunks)] ELSE <<>>,
                  saved \o SubSeq(word_chunks, 1, Len(word_chunks) - 1), c)

PackOne(sentences, i, current_chunk, chunks, potential_chunk, c) ==
    IF StrLen(potential_chunk) <= c.max
    THEN PackSentences(sentences, i + 1, potential_chunk, chunks, c)
    ELSE IF StrLen(sentences[i]) <= c.max
         THEN PackSentences(sentences, i + 1, sentences[i], Flush(chunks, current_chunk), c)
         ELSE PackWords(sentences, i, Flush(chunks, current_chunk),
                        split_by_words(sentences[i], c), c)

PackSentences(sentences, i, current_chunk, chunks, c) ==
    IF i > Len(sentences) THEN Flush(chunks, current_chunk)
    ELSE PackOne(sentences, i, current_chunk, chunks,
                 PotentialChunk(current_chunk, sentences[i]), c)

\* the chunks of split_long_content before overlap is added
SplitBySentences(content, sentences, c) ==
    IF Len(sentences) > 1
    THEN PackSentences(sentences, 1, <<>>, <<>>, c)
    ELSE split_by_words(content, c)

SplitChunks(content, c) == SplitBySentences(content, split_sentences(content), c)

split_long_content(content, c) ==
    IF StrLen(content) <= c.max THEN <<content>>
    ELSE add_overlap_to_chunks(SplitChunks(content, c), c)

----------------------------------------------------------------------------
(* IntelligentChunker: chunk construction *)

\* header words carry id 0; the words of a content carry ids 1, 2, ...
Hdr(n) == Tok(0, n, FALSE)

\* article.number: "ماده واحده" as the parser extracts it, "ماده ۱" otherwise
ArticleNumber(number) ==
    IF number = "single" THEN <<Hdr(4), Hdr(5)>> ELSE <<Hdr(4), Hdr(1)>>

\* chapter.number: "فصل اول" as the parser extracts it, "فصل ۱" otherwise
ChapterNumber(number) ==
    IF number = "chapter" THEN <<Hdr(3), Hdr(3)>> ELSE <<Hdr(3), Hdr(1)>>

\* f"{subsection.type}": a subsection of core.models holds a member of the
\* (str, Enum) class SubsectionType, which an f-string renders by its name
\* (Python 3.11 and later); the dataclass of the parser holds the str the
\* parser gave it
SubsectionTypeLength(type) ==
    CASE type = "SubsectionType.NUMBERED" -> 23
      [] type = "SubsectionType.LETTERED" -> 23
      [] type = "SubsectionType.DASH" -> 19
      [] type = "numbered" -> 8
      [] type = "lettered" -> 8
      [] type = "dash" -> 4

\* f"{subsection.type} {subsection.number}"
SubsectionLabel(subsection) ==
    <<Hdr(SubsectionTypeLength(subsection.type))>> \o subsection.number

\* "تبصره ۱", "پاورقی 1:"
NoteNumber == <<Hdr(5), Hdr(1)>>
FootnoteLabel == <<Hdr(6), Hdr(2)>>
Dash == <<Hdr(1)>>

\* TextChunk(...): the validators strip the content and recompute the count;
\* ref is legal_references[0]; part/parts record which piece of its unit the chunk is
StrippedChunk(id, docid, content, type, position, ref, k, n) ==
    [id |-> id, document_id |-> docid, content |-> content,
     chunk_type |-> type, position |-> position,
     character_count |-> StrLen(content), legal_references |-> <<ref>>,
     part |-> k, parts |-> n]

TextChunk(id, docid, content, type, position, ref, k, n) ==
    StrippedChunk(id, docid, Strip(content), type, position, ref, k, n)

\* f"{article.number} - {article.title}\n\n{article.content}" or without title
ArticleMainContent(article) ==
    IF article.title # <<>>
    THEN Glue(Glue(Glue(ArticleNumber(article.number), 1, Dash), 1, article.title), 2,
              article.content)
    ELSE Glue(ArticleNumber(article.number), 2, article.content)

\* f"{article.number} - {subsection.type} {subsection.number}\n\n{subsection.content}"
SubsectionContent(article, subsection) ==
    Glue(Glue(Glue(ArticleNumber(article.number), 1, Dash), 1, SubsectionLabel(subsection)), 2,
         subsection.content)

\* f"{article.number} - {note.number}\n\n{note.content}"
NoteContent(article, note) ==
    Glue(Glue(Glue(ArticleNumber(article.number), 1, Dash), 1, NoteNumber), 2, note.content)

\* the elements of a list that have content (if subsection.content: / if note.content:)
WithContent(elements) == SelectSeq(elements, LAMBDA e : e.content # <<>>)

SubsectionUnits(article, subsections) ==
    [j \in 1..Len(subsections) |->
        [type |-> "subsection", content |-> SubsectionContent(article, subsections[j])]]

NoteUnits(article, notes) ==
    [k \in 1..Len(notes) |-> [type |-> "note", content |-> NoteContent(article, notes[k])]]

\* a chunker that walks the notes of an article before its subsections
ArticleUnitsNotesFirst(article) ==
    (IF article.content # <<>>
     THEN <<[type |-> "article", content |-> ArticleMainContent(article)]>> ELSE <<>>)
    \o NoteUnits(article, WithContent(article.notes))
    \o SubsectionUnits(article, WithContent(article.subsections))

\* the units of an article in the order chunk_article walks them
ArticleUnits(article) ==
    (IF article.content # <<>>
     THEN <<[type |-> "article", content |-> ArticleMainContent(article)]>> ELSE <<>>)
    \o SubsectionUnits(article, WithContent(article.subsections))
    \o NoteUnits(article, WithContent(article.notes))

\* the content pieces of one unit
UnitPieces(content, c) ==
    IF should_split_content(content, c) THEN split_long_content(content, c) ELSE <<content>>

\* a chunker that gives every piece of a unit the id of the first one
PieceChunksOneId(pieces, type, docid, position, ref, base_chunk_id, chunk_counter) ==
    [k \in 1..Len(pieces) |->
        TextChunk(Append(base_chunk_id, chunk_counter), docid, pieces[k],
                  type, position, ref, k, Len(pieces))]

\* the chunks of the pieces of one unit, numbered from chunk_counter
PieceChunks(pieces, type, docid, position, ref, base_chunk_id, chunk_counter) ==
    [k \in 1..Len(pieces) |->
        TextChunk(Append(base_chunk_id, chunk_counter + k - 1), docid, pieces[k],
                  type, position, ref, k, Len(pieces))]

UnitChunks(unit, docid, position, ref, base_chunk_id, chunk_counter, c) ==
    PieceChunks(UnitPieces(unit.content, c), unit.type, docid, position, ref,
                base_chunk_id, chunk_counter)

RECURSIVE ChunkUnits(_, _, _, _, _, _, _, _)
ChunkUnits(units, u, chunks, docid, position, ref, base_chunk_id, c) ==
    IF u > Len(units) THEN chunks
    ELSE ChunkUnits(units, u + 1,
                    chunks \o UnitChunks(units[u], docid, position, ref, base_chunk_id,
                                         Len(chunks), c),
                    docid, position, ref, base_chunk_id, c)

\* chunk_article: an article whose keywords attribute is not a list (bad) raises
\* at article.keywords[:10], before its first chunk is built
chunk_article(article, docid, position, base_chunk_id, c) ==
    IF article.bad /\ article.content # <<>>
    THEN [raised |-> TRUE, chunks |-> <<>>]
    ELSE [raised |-> FALSE,
          chunks |-> ChunkUnits(ArticleUnits(article), 1, <<>>, docid, position,
                                article.number, base_chunk_id, c)]

\* position of the article with 0-based index i in a chapter at `position`
ArticlePosition(position, i) == position + i + 1

RECURSIVE ChapterArticles(_, _, _, _, _, _, _)
RECURSIVE AfterChapterArticle(_, _, _, _, _, _, _, _)

\* chunks.extend(article_chunks); chunk_counter += len(article_chunks)
AfterChapterArticle(r, articles, a, chunks, docid, position, base_chunk_id, c) ==
    IF r.raised THEN [raised |-> TRUE, chunks |-> chunks]
    ELSE ChapterArticles(articles, a + 1, chunks \o r.chunks,
                         docid, position, base_chunk_id, c)

ChapterArticles(articles, a, chunks, docid, position, base_chunk_id, c) ==
    IF a > Len(articles) THEN [raised |-> FALSE, chunks |-> chunks]
    ELSE AfterChapterArticle(
             chunk_article(articles[a], docid, ArticlePosition(position, a - 1),
                           Append(base_chunk_id, Len(chunks)), c),
             articles, a, chunks, docid, position, base_chunk_id, c)

\* the chapter-title chunk, if the chapter has a title
TitleChunks(chapter, docid, position, base_chunk_id) ==
    IF chapter.title # <<>>
    THEN <<TextChunk(Append(base_chunk_id, 0), docid,
                     Glue(Glue(ChapterNumber(chapter.number), 1, Dash), 1, chapter.title),
                     "chapter_title", position, chapter.number, 1, 1)>>
    ELSE <<>>

chunk_chapter(chapter, docid, position, base_chunk_id, c) ==
    ChapterArticles(chapter.articles, 1, TitleChunks(chapter, docid, position, base_chunk_id),
                    docid, position, base_chunk_id, c)

\* "\n\n".join(f"پاورقی {i+1}: {footnote}" ...)
RECURSIVE FootnotesContent(_, _)
FootnotesContent(footnotes, k) ==
    IF k = 1 THEN Glue(FootnoteLabel, 1, footnotes[1])
    ELSE Glue(FootnotesContent(footnotes, k - 1), 2, Glue(FootnoteLabel, 1, footnotes[k]))

\* a chunker that never advances its position counter
AdvancePositionStuck(position_counter, chunks) == position_counter

\* position_counter += len(chunks of the chapter or article)
AdvancePosition(position_counter, chunks) == position_counter + Len(chunks)

\* chunk_document after one chapter or standalone article returned or raised r:
\* st = [raised, chunks, made, position_counter]; made holds every chunk built so
\* far, also those of a chapter that raised later
Extend(st, r) ==
    [raised |-> r.raised,
     chunks |-> IF r.raised THEN st.chunks ELSE st.chunks \o r.chunks,
     made |-> st.made \o r.chunks,
     position_counter |-> IF r.raised THEN st.position_counter
                          ELSE AdvancePosition(st.position_counter, r.chunks)]

RECURSIVE ChunkChapters(_, _, _, _)
ChunkChapters(doc, i, st, c) ==
    IF i > Len(doc.chapters) \/ st.raised THEN st
    ELSE ChunkChapters(doc, i + 1,
            Extend(st, chunk_chapter(doc.chapters[i], doc.id, st.position_counter,
                                     <<doc.id, "ch", i - 1>>, c)), c)

RECURSIVE ChunkStandalone(_, _, _, _)
ChunkStandalone(doc, i, st, c) ==
    IF i > Len(doc.standalone_articles) \/ st.raised THEN st
    ELSE ChunkStandalone(doc, i + 1,
            Extend(st, chunk_article(doc.standalone_articles[i], doc.id, st.position_counter,
                                     <<doc.id, "art", i - 1>>, c)), c)

AppendChunk(st, chunk) ==
    [st EXCEPT !.chunks = Append(st.chunks, chunk), !.made = Append(st.made, chunk)]

ChunkFootnotes(doc, st) ==
    IF st.raised \/ doc.footnotes = <<>> THEN st
    ELSE AppendChunk(st, TextChunk(<<doc.id, "footnotes">>, doc.id,
                                   FootnotesContent(doc.footnotes, Len(doc.footnotes)),
                                   "footnote", st.position_counter, "footnotes", 1, 1))

\* number of chunks of a type in a chunk list
CountType(chunks, type) == Cardinality({k \in 1..Len(chunks) : chunks[k].chunk_type = type})

\* the counters chunk_article raises while it builds chunks
CountMade(stats, made) ==
    [stats EXCEPT !.article_chunks = @ + CountType(made, "article"),
                  !.subsection_chunks = @ + CountType(made, "subsection"),
                  !.note_chunks = @ + CountType(made, "note")]

\* the counters chunk_document raises before it returns
CountReturned(stats, chunks, c) ==
    [stats EXCEPT
        !.documents_chunked = @ + 1,
        !.total_chunks_created = @ + Len(chunks),
        !.oversized_chunks = @ + Cardinality({k \in 1..Len(chunks) :
                                  chunks[k].character_count > c.max}),
        !.undersized_chunks = @ + Cardinality({k \in 1..Len(chunks) :
                                  chunks[k].character_count <= c.max
                                  /\ chunks[k].character_count < c.min})]

\* the statistics after a chunk_document call that ended in state st
StatsAfter(stats, st, c) ==
    IF st.raised THEN CountMade(stats, st.made)
    ELSE CountReturned(CountMade(stats, st.made), st.chunks, c)

ChunkOutcome(st, stats, c) ==
    [raised |-> st.raised,
     chunks |-> IF st.raised THEN <<>> ELSE st.chunks,
     stats |-> StatsAfter(stats, st, c)]

\* chunk_document: the chunks it returns (or that it raised) and the statistics it leaves
chunk_document(doc, stats, c) ==
    ChunkOutcome(
        ChunkFootnotes(doc,
            ChunkStandalone(doc, 1,
                ChunkChapters(doc, 1,
                    [raised |-> FALSE, chunks |-> <<>>, made |-> <<>>, position_counter |-> 0],
                    c), c)),
        stats, c)

\* one iteration of the loop of chunk_documents_batch: b = [all_chunks, report, stats]
RecordDocument(b, doc, r) ==
    IF r.raised
    THEN [all_chunks |-> b.all_chunks,
          report |-> [b.report EXCEPT !.errors = Append(@, doc.id),
                                      !.failed_items = @ + 1],
          stats |-> r.stats]
    ELSE [all_chunks |-> b.all_chunks \o r.chunks,
          report |-> [b.report EXCEPT !.processed_items = @ + 1],
          stats |-> r.stats]

\* a batch loop that gives up after the first failure
BatchStepAbort(b, doc, c) ==
    IF b.report.failed_items > 0 THEN b
    ELSE RecordDocument(b, doc, chunk_document(doc, b.stats, c))

BatchStep(b, doc, c) == RecordDocument(b, doc, chunk_document(doc, b.stats, c))

RECURSIVE BatchLoop(_, _, _, _)
BatchLoop(documents, i, b, c) ==
    IF i > Len(documents) THEN b
    ELSE BatchLoop(documents, i + 1, BatchStep(b, documents[i], c), c)

\* ProcessingReport(operation_type=..., total_items=n, status=PROCESSING)
NewReport(n) ==
    [total_items |-> n, processed_items |-> 0, failed_items |-> 0,
     errors |-> <<>>, status |-> "PROCESSING"]

\* a rate computed without looking at total_items
SuccessRateUnguarded(r) ==
    [num |-> r.processed_items * 100, den |-> r.total_items]

\* ProcessingReport.success_rate, as the fraction num / den
success_rate(r) ==
    IF r.total_items = 0 THEN [num |-> 0, den |-> 1]
    ELSE [num |-> r.processed_items * 100, den |-> r.total_items]

\* report.status = ProcessingStatus.COMPLETED
Finalize(b) ==
    [all_chunks |-> b.all_chunks,
     report |-> [b.report EXCEPT !.status = "COMPLETED"],
     stats |-> b.stats]

chunk_documents_batch(documents, stats, c) ==
    Finalize(BatchLoop(documents, 1,
                       [all_chunks |-> <<>>, report |-> NewReport(Len(documents)),
                        stats |-> stats], c))

----------------------------------------------------------------------------
(* DocumentSplitter *)

(* The text of a DOCX file is the sequence of its non-empty stripped         *)
(* paragraphs, joined by "\n".  A paragraph is a record of what the splitter *)
(* reads from its text: len (characters), clean_len (characters after        *)
(* clean_text), persian (characters in U+0600..U+06FF), word (\w characters),*)
(* title_words (the title words it holds as written: "law" for "قانون",      *)
(* "regulation" for "آیین‌نامه", "directive" for "دستورالعمل"), indicators    *)
(* (the legal indicators it holds), article (matches "ماده <digits>" or      *)
(* "ماده واحده"), clause (it ends with a "(مصوب <date>)" clause: "none",      *)
(* "attached" as written, "spaced" after clean_text), clause_len (characters *)
(* of the clause and the space before it), sep (a run of at least ten        *)
(* asterisks), raises (processing it raises an exception).                   *)

\* QUALITY_ASSURANCE["min_law_length"]
MinLawLength == 50
\* the gate of split_document, quality_score >= 0.4, in tenths
QualityThreshold == 4
\* one criterion of calculate_quality_score, score += 0.2, in tenths
CriterionScore == 2
\* min(score, 1.0), in tenths
FullScore == 10
\* a title counts when len(title) > 10
MeaningfulLength == 10
\* line.strip()[:100] + "..."
TitleCut == 100
EllipsisLength == 3
\* persian_ratio >= 0.3, in tenths
PersianRatio == 3
\* len(text.strip()) < 3 is not Persian text
PersianMinLength == 3
\* len(f"سند حقوقی شماره {law_index + 1}") for a one-digit index
NumberedTitleLength == 17

RECURSIVE SumSeq(_, _)
SumSeq(s, k) == IF k = 0 THEN 0 ELSE SumSeq(s, k - 1) + s[k]

\* len('\n'.join(paragraphs[1..k]))
JoinedLength(lens) == IF lens = <<>> THEN 0 ELSE SumSeq(lens, Len(lens)) + Len(lens) - 1

\* offset of the first character of part i of '\n'.join(parts), and of its end
OffsetOf(lens, i) == IF i = 1 THEN 0 ELSE JoinedLength(SubSeq(lens, 1, i - 1)) + 1
EndOf(lens, i) == JoinedLength(SubSeq(lens, 1, i))

RawLengths(text) == [i \in 1..Len(text) |-> text[i].len]

ParStart(text, i) == OffsetOf(RawLengths(text), i)
ParEnd(text, i) == EndOf(RawLengths(text), i)

\* len(full_text)
TextLength(text) == JoinedLength(RawLengths(text))

\* [match.end() for match in re.finditer(separator_pattern, text)]
SeparatorParagraphs(text) ==
    SelectSeq([i \in 1..Len(text) |-> i], LAMBDA i : text[i].sep)

SeparatorEnds(text, found) == [k \in 1..Len(found) |-> ParEnd(text, found[k])]

\* the loop over the separators: st = [start_pos, boundaries]
RECURSIVE BoundaryLoop(_, _, _)
BoundaryLoop(separators, k, st) ==
    IF k > Len(separators) THEN st
    ELSE BoundaryLoop(separators, k + 1,
            [start_pos |-> separators[k],
             boundaries |-> IF st.start_pos < separators[k]
                            THEN Append(st.boundaries,
                                        [start |-> st.start_pos, end |-> separators[k]])
                            ELSE st.boundaries])

\* if start_pos < len(text): boundaries.append((start_pos, len(text)))
LastSection(st, n) ==
    IF st.start_pos < n
    THEN Append(st.boundaries, [start |-> st.start_pos, end |-> n])
    ELSE st.boundaries

identify_law_boundaries(text) ==
    LastSection(BoundaryLoop(SeparatorEnds(text, SeparatorParagraphs(text)), 1,
                             [start_pos |-> 0, boundaries |-> <<>>]),
                TextLength(text))

\* full_text[start:end].strip(): the paragraphs that lie inside the span
SliceParagraphs(text, start, end) ==
    SelectSeq([i \in 1..Len(text) |-> [par |-> text[i], from |-> ParStart(text, i),
                                        to |-> ParEnd(text, i)]],
              LAMBDA p : p.from >= start /\ p.to <= end)

Paragraphs(slice) == [i \in 1..Len(slice) |-> slice[i].par]

SpanText(text, b) == Paragraphs(SliceParagraphs(text, b.start, b.end))

\* a parenthesis gets a space on both sides: re.sub(r'\s*([()])\s*', r' \1 ', text)
SpacedClause(clause) == IF clause = "attached" THEN "spaced" ELSE clause

\* normalize_persian_text on the title words: char_map turns the first letter
\* of "آیین‌نامه" into "ا", the letters of the two other words are not in it
NormalizedTitleWords(words) == words \ {"regulation"}

\* PersianTextProcessor.clean_text on the paragraphs of a text: one line
clean_text(pars) ==
    [len |-> JoinedLength([i \in 1..Len(pars) |-> pars[i].clean_len]),
     persian |-> SumSeq([i \in 1..Len(pars) |-> pars[i].persian], Len(pars)),
     word |-> SumSeq([i \in 1..Len(pars) |-> pars[i].word], Len(pars)),
     title_words |-> UNION {NormalizedTitleWords(pars[i].title_words) : i \in 1..Len(pars)},
     indicators |-> UNION {pars[i].indicators : i \in 1..Len(pars)},
     article |-> \E i \in 1..Len(pars) : pars[i].article,
     clause |-> IF pars = <<>> THEN "none" ELSE SpacedClause(pars[Len(pars)].clause),
     clause_len |-> IF pars = <<>> THEN 0 ELSE pars[Len(pars)].clause_len]

\* PersianTextProcessor.is_valid_persian_text
is_valid_persian_text(cleaned) ==
    /\ cleaned.len >= PersianMinLength
    /\ cleaned.word > 0
    /\ 10 * cleaned.persian >= PersianRatio * cleaned.word

\* a cleaned text as the argument of a call: the one line it is, which
\* clean_text leaves as it is
OneLine(cleaned) ==
    IF cleaned.len = 0 THEN <<>>
    ELSE <<[len |-> cleaned.len, clean_len |-> cleaned.len, persian |-> cleaned.persian,
            word |-> cleaned.word, title_words |-> cleaned.title_words,
            indicators |-> cleaned.indicators, article |-> cleaned.article,
            clause |-> cleaned.clause, clause_len |-> cleaned.clause_len,
            sep |-> FALSE, raises |-> FALSE]>>

\* re.search(law_title_pattern, first_content): "(مصوب" as written, closing the text
TitlePatternMatches(first_content) == first_content.clause = "attached"

\* any(legal_word in line for legal_word in ['قانون', 'آیین‌نامه', 'دستورالعمل'])
HoldsTitleWord(line) == line.title_words # {}

\* extract_law_title_and_date after its text was cleaned: first_content is the
\* one line of the cleaned text; <<>> is (None, None, None)
TitleAndDate(first_content) ==
    IF TitlePatternMatches(first_content)
    THEN <<[kind |-> "pattern", len |-> first_content.len - first_content.clause_len,
            approval_date |-> "date"]>>
    ELSE IF HoldsTitleWord(first_content)
         THEN <<[kind |-> "line", len |-> first_content.len, approval_date |-> "unknown"]>>
         ELSE <<>>

\* extract_law_title_and_date(law_text): the text is cleaned first
extract_law_title_and_date(law_text) == TitleAndDate(clean_text(law_text))

Min(a, b) == IF a <= b THEN a ELSE b

\* the title process_individual_law makes when none was extracted
FallbackTitle(cleaned) ==
    IF cleaned.len > MeaningfulLength
    THEN [kind |-> "cut", len |-> Min(cleaned.len, TitleCut) + EllipsisLength,
          approval_date |-> "unknown"]
    ELSE [kind |-> "numbered", len |-> NumberedTitleLength, approval_date |-> "unknown"]

TitleOf(extracted, cleaned) ==
    IF extracted # <<>> THEN extracted[1] ELSE FallbackTitle(cleaned)

Points(condition) == IF condition THEN CriterionScore ELSE 0

\* calculate_quality_score, in tenths
calculate_quality_score(cleaned, title) ==
    Min(Points(cleaned.len >= MinLawLength)
        + Points(title.len > MeaningfulLength)
        + Points(is_valid_persian_text(cleaned))
        + Points(Cardinality(cleaned.indicators) >= 2)
        + Points(cleaned.article),
        FullScore)

\* a splitter that gives every record the id of the first span
LawMetadataFirstId(law_index, title, cleaned) ==
    [id |-> 1, title |-> [kind |-> title.kind, len |-> title.len],
     approval_date |-> title.approval_date, raw_content |-> cleaned,
     quality_score |-> calculate_quality_score(cleaned, title)]

\* LawMetadata(...)
LawMetadata(law_index, title, cleaned) ==
    [id |-> law_index + 1, title |-> [kind |-> title.kind, len |-> title.len],
     approval_date |-> title.approval_date, raw_content |-> cleaned,
     quality_score |-> calculate_quality_score(cleaned, title)]

TitledLaw(law_index, cleaned) ==
    LawMetadata(law_index, TitleOf(extract_law_title_and_date(OneLine(cleaned)), cleaned),
                cleaned)

\* the body of process_individual_law after the text was cleaned
ProcessCleaned(cleaned, law_index, stats) ==
    IF cleaned.len < MinLawLength
    THEN [metadata |-> <<>>, stats |-> stats]
    ELSE [metadata |-> <<TitledLaw(law_index, cleaned)>>, stats |-> stats]

\* process_individual_law: <<>> is None; an exception is counted and gives None
process_individual_law(law_text, law_index, stats) ==
    IF \E i \in 1..Len(law_text) : law_text[i].raises
    THEN [metadata |-> <<>>,
          stats |-> [stats EXCEPT !.extraction_errors = @ + 1]]
    ELSE ProcessCleaned(clean_text(law_text), law_index, stats)

\* a gate that lets everything through
AnyMetadata(metadata) == TRUE

\* if metadata and metadata.quality_score >= 0.4
PassesQualityGate(metadata) ==
    metadata # <<>> /\ metadata[1].quality_score >= QualityThreshold

\* the branch of the loop of split_document on what process_individual_law returned:
\* st = [valid_laws, stats]
Gate(st, r) ==
    IF PassesQualityGate(r.metadata)
    THEN [valid_laws |-> st.valid_laws \o r.metadata,
          stats |-> [r.stats EXCEPT !.valid_laws = @ + 1]]
    ELSE [valid_laws |-> st.valid_laws,
          stats |-> [r.stats EXCEPT !.invalid_laws = @ + 1]]

\* a loop that stops processing spans after the first extraction error
ProcessSpanAbort(st, law_text, law_index) ==
    IF law_text = <<>> \/ st.stats.extraction_errors > 0 THEN st
    ELSE Gate(st, process_individual_law(law_text, law_index, st.stats))

\* one span of the loop: law_text = full_text[start:end].strip(); if law_text: ...
ProcessSpan(st, law_text, law_index) ==
    IF law_text = <<>> THEN st
    ELSE Gate(st, process_individual_law(law_text, law_index, st.stats))

RECURSIVE SplitLoop(_, _, _, _)
SplitLoop(text, boundaries, i, st) ==
    IF i > Len(boundaries) THEN st
    ELSE SplitLoop(text, boundaries, i + 1,
                   ProcessSpan(st, SpanText(text, boundaries[i]), i - 1))

\* self.processing_stats['total_laws_found'] = len(boundaries), then the loop
SplitBoundaries(text, boundaries, stats) ==
    SplitLoop(text, boundaries, 1,
              [valid_laws |-> <<>>,
               stats |-> [stats EXCEPT !.total_laws_found = Len(boundaries)]])

(* The files the program writes are the five paths of OUTPUT_FILES, which the *)
(* splitter and the pipeline share, and the paths handed to export_chunks    *)
(* and to save_parsed_documents.                                             *)
(* A file is "absent", "partial" (opened for writing and holding less than   *)
(* the whole JSON text, down to nothing) or "complete" with the data that    *)
(* were dumped into it.  The storage of a save gives, for each file it       *)
(* writes, whether the file can be opened for writing (openable) and whether *)
(* it takes what is written (room).                                          *)

OutputNames ==
    {"individual_laws", "processed_documents", "metadata", "chunks", "processing_report",
     "export", "parsed_documents"}

\* the files split_document writes
SplitterOutputs == {"individual_laws", "processing_report"}

\* the files save_results writes
PipelineOutputs == {"processed_documents", "chunks", "metadata", "processing_report"}

AbsentFile == [state |-> "absent", data |-> <<>>]
PartialFile == [state |-> "partial", data |-> <<>>]
CompleteFile(data) == [state |-> "complete", data |-> data]

\* the files after one of them was written
Written(files, name, file) == [n \in OutputNames |-> IF n = name THEN file ELSE files[n]]

\* try: ... output_file.parent.mkdir(exist_ok=True); with open(output_file, 'w',
\* encoding='utf-8') as f: json.dump(data, f, ...); except Exception: print(...)
\* a failed mkdir or open leaves the file as it was, open empties it, a failed
\* write leaves what was written before it; the exception is caught
SaveJson(file, data, env) ==
    IF ~env.openable THEN file
    ELSE IF env.room THEN CompleteFile(data)
    ELSE PartialFile

\* DocumentSplitter.save_individual_laws
save_individual_laws(files, laws, storage) ==
    Written(files, "individual_laws",
            SaveJson(files.individual_laws, laws, storage.individual_laws))

\* DocumentSplitter.save_processing_report
save_processing_report(files, stats, storage) ==
    Written(files, "processing_report",
            SaveJson(files.processing_report, <<stats>>, storage.processing_report))

\* self.save_individual_laws(); self.save_processing_report()
SaveFiles(files, laws, stats, storage) ==
    save_processing_report(save_individual_laws(files, laws, storage), stats, storage)

\* self.processing_stats['processing_time'] = (end_time - start_time).total_seconds()
TimedStats(stats, elapsed) == [stats EXCEPT !.processing_time = elapsed]

\* split_document after the loop: self.laws, the saves, the result
Finished(valid_laws, stats, files, storage) ==
    [laws |-> valid_laws,
     stats |-> stats,
     files |-> SaveFiles(files, valid_laws, stats, storage),
     result |-> [success |-> TRUE, stats |-> stats, laws |-> valid_laws]]

FinishSplit(st, files, elapsed, storage) ==
    Finished(st.valid_laws, TimedStats(st.stats, elapsed), files, storage)

\* split_document(file): a file that cannot be read ends in the outer handler,
\* which changes nothing and returns success False (a result without laws)
split_document(file, laws, stats, files, elapsed, storage) ==
    IF ~file.readable
    THEN [laws |-> laws, stats |-> stats, files |-> files,
          result |-> [success |-> FALSE, stats |-> stats, laws |-> <<>>]]
    ELSE FinishSplit(SplitBoundaries(file.paragraphs,
                                     identify_law_boundaries(file.paragraphs), stats),
                     files, elapsed, storage)

----------------------------------------------------------------------------
(* LegalDocumentParser *)

(* The raw_content of a law is a sequence of lines joined by "\n".  A line is *)
(* [kind, rest]: kind says how the line starts ("chapter": "فصل اول",         *)
(* "article": "ماده ۱", "single": "ماده واحده", "note": "تبصره",               *)
(* "footnote": "(1)", "prose": no marker) and rest is the text that follows  *)
(* the marker on the line, after " - " for a header.  The lines handed to    *)
(* parse_article alone may also start with a subsection marker: "numbered":  *)
(* "۱ -", "lettered": "الف -", "dash": "-".                                   *)

HeaderKinds == {"chapter", "article", "single", "note"}

HeaderTokens(kind) ==
    CASE kind = "chapter" -> <<Hdr(3), Hdr(3)>>
      [] kind = "article" -> <<Hdr(4), Hdr(1)>>
      [] kind = "single" -> <<Hdr(4), Hdr(5)>>
      [] kind = "note" -> <<Hdr(5)>>
      [] kind = "footnote" -> <<Hdr(3)>>
      [] kind = "numbered" -> <<Hdr(1), Hdr(1)>>
      [] kind = "lettered" -> <<Hdr(3), Hdr(1)>>
      [] kind = "dash" -> <<Hdr(1)>>
      [] OTHER -> <<>>

\* the words of a line
LineTokens(line) ==
    JoinWords(HeaderTokens(line.kind)
              \o (IF line.kind \in HeaderKinds /\ line.rest # <<>> THEN Dash ELSE <<>>)
              \o line.rest)

LineLengths(text) == [i \in 1..Len(text) |-> StrLen(LineTokens(text[i]))]

LineStart(text, i) == OffsetOf(LineLengths(text), i)
LineEnd(text, i) == EndOf(LineLengths(text), i)

\* len(text)
RawContentLength(text) == JoinedLength(LineLengths(text))

\* re.finditer(pattern, text, re.MULTILINE) for a header pattern
\* ^(marker number)\s*[-–—]?\s*(.*)$ : after a header that stands alone on its
\* line, \s* runs over the line break and (.*) takes the whole next line
RECURSIVE HeaderMatches(_, _, _, _)
HeaderMatches(text, i, kinds, found) ==
    IF i > Len(text) THEN found
    ELSE IF text[i].kind \notin kinds
         THEN HeaderMatches(text, i + 1, kinds, found)
         ELSE IF text[i].rest = <<>> /\ i < Len(text)
              THEN HeaderMatches(text, i + 2, kinds,
                      Append(found, [line |-> i, number |-> text[i].kind,
                                     title |-> LineTokens(text[i + 1])]))
              ELSE HeaderMatches(text, i + 1, kinds,
                      Append(found, [line |-> i, number |-> text[i].kind,
                                     title |-> text[i].rest]))

\* (number, title, start_pos, end_pos) of every match: a span ends where the
\* next match starts, the last one at len(text)
Spans(text, matches) ==
    [k \in 1..Len(matches) |->
        [number |-> matches[k].number, title |-> matches[k].title,
         start |-> LineStart(text, matches[k].line),
         end |-> IF k < Len(matches) THEN LineStart(text, matches[k + 1].line)
                 ELSE RawContentLength(text)]]

extract_chapters(text) == Spans(text, HeaderMatches(text, 1, {"chapter"}, <<>>))

\* article_title = "" for a match of single_article_pattern
Untitled(matches) == [k \in 1..Len(matches) |-> [matches[k] EXCEPT !.title = <<>>]]

\* all_matches.sort(key=start): the sort is stable, the regular matches come first
RECURSIVE MergeMatches(_, _)
MergeMatches(regular, single) ==
    IF regular = <<>> THEN single
    ELSE IF single = <<>> THEN regular
    ELSE IF regular[1].line <= single[1].line
         THEN <<regular[1]>> \o MergeMatches(Tail(regular), single)
         ELSE <<single[1]>> \o MergeMatches(regular, Tail(single))

\* article_pattern matches "ماده واحده" too
extract_articles(text) ==
    Spans(text, MergeMatches(HeaderMatches(text, 1, {"article", "single"}, <<>>),
                             Untitled(HeaderMatches(text, 1, {"single"}, <<>>))))

\* text[start_pos:end_pos]: the lines inside the span
SliceLines(text, start, end) ==
    SelectSeq([i \in 1..Len(text) |-> [line |-> text[i], from |-> LineStart(text, i),
                                        to |-> LineEnd(text, i)]],
              LAMBDA l : l.from >= start /\ l.to <= end)

Lines(slice) == [i \in 1..Len(slice) |-> slice[i].line]

SpanLines(text, span) == Lines(SliceLines(text, span.start, span.end))

RECURSIVE AllTokens(_, _)
AllTokens(lines, k) ==
    IF k = 0 THEN <<>> ELSE AllTokens(lines, k - 1) \o LineTokens(lines[k])

\* clean_text on the words of a line: the parentheses of "(1)" get a space on
\* both sides, "( 1 )"
CleanedTokens(line) ==
    IF line.kind = "footnote" THEN <<Hdr(1), Hdr(1), Hdr(1)>> \o line.rest
    ELSE LineTokens(line)

RECURSIVE AllCleanedTokens(_, _)
AllCleanedTokens(lines, k) ==
    IF k = 0 THEN <<>> ELSE AllCleanedTokens(lines, k - 1) \o CleanedTokens(lines[k])

\* clean_text(article_text): every whitespace run becomes one space, so the
\* cleaned text is a single line; head is the marker it starts with
CleanedLine(lines) ==
    [head |-> IF lines = <<>> THEN "" ELSE lines[1].kind,
     tokens |-> JoinWords(AllCleanedTokens(lines, Len(lines)))]

NoText == [head |-> "", tokens |-> <<>>]

\* re.sub(article_pattern, '', cleaned_text, count=1) and the same for
\* single_article_pattern: without re.MULTILINE, (.*)$ runs to the end of the
\* single line, so a text that starts with an article header is removed whole
\* and any other text is left as it is
RemoveArticleHeader(cleaned) ==
    IF cleaned.head \in {"article", "single"} THEN NoText ELSE cleaned

SubsectionKinds == {"numbered", "lettered", "dash"}

\* match.group(1) of a subsection pattern, '-' for a dash
SubsectionNumber(kind) == <<HeaderTokens(kind)[1]>>

\* extract_subsections on a text of one line: ^ matches at its start only, so
\* the text holds a subsection when it starts with a subsection marker, and
\* (.+?) runs from the marker to the end of the text
extract_subsections(article_text) ==
    IF /\ article_text.head \in SubsectionKinds
       /\ Len(article_text.tokens) > Len(HeaderTokens(article_text.head))
    THEN <<[number |-> SubsectionNumber(article_text.head),
            content |-> SubSeq(article_text.tokens,
                               Len(HeaderTokens(article_text.head)) + 1,
                               Len(article_text.tokens)),
            type |-> article_text.head]>>
    ELSE <<>>

\* match.group(1) of note_pattern, "تبصره\s*[^\s]*": the word and the run of
\* characters that follows it
NoteNumberOf(article_text) ==
    Strip(SubSeq(article_text.tokens, 1, Min(2, Len(article_text.tokens))))

\* extract_notes on a text of one line: the text holds a note when it starts
\* with "تبصره"; re.sub(note_pattern, '', note_text, count=1) then removes the
\* whole line, which leaves the note without content
extract_notes(article_text) ==
    IF article_text.head = "note"
    THEN <<[number |-> NoteNumberOf(article_text), content |-> <<>>,
            subsections |-> extract_subsections(NoText)]>>
    ELSE <<>>

\* whether two strings are made of the same words
SameWords(a, b) ==
    /\ Len(a) = Len(b)
    /\ \A k \in 1..Len(a) : a[k].id = b[k].id /\ a[k].len = b[k].len

\* main_content.replace(old, ''): every occurrence of old is removed, from the
\* left; an empty old removes nothing
RECURSIVE Removed(_, _)
Removed(main_content, old) ==
    IF old = <<>> \/ Len(main_content) < Len(old) THEN main_content
    ELSE IF SameWords(SubSeq(main_content, 1, Len(old)), old)
         THEN Removed(SubSeq(main_content, Len(old) + 1, Len(main_content)), old)
         ELSE <<main_content[1]>> \o Removed(Tail(main_content), old)

\* for x in elements: main_content = main_content.replace(x.content, '')
RECURSIVE RemoveContents(_, _, _)
RemoveContents(main_content, elements, k) ==
    IF k > Len(elements) THEN main_content
    ELSE RemoveContents(Removed(main_content, elements[k].content), elements, k + 1)

\* re.sub(r'\s+', ' ', main_content).strip(), then the dataclass
\* LegalArticle(number, title, content, subsections, notes, keywords)
LegalArticle(article_num, article_title, main_content, subsections, notes) ==
    [number |-> article_num, title |-> article_title, content |-> JoinWords(main_content),
     subsections |-> subsections, notes |-> notes, bad |-> FALSE]

\* parse_article after the header was removed
ParsedArticle(article_num, article_title, content_text) ==
    LegalArticle(article_num, article_title,
                 RemoveContents(RemoveContents(content_text.tokens,
                                               extract_notes(content_text), 1),
                                extract_subsections(content_text), 1),
                 extract_subsections(content_text), extract_notes(content_text))

parse_article(article_text, article_num, article_title) ==
    ParsedArticle(article_num, article_title,
                  RemoveArticleHeader(CleanedLine(article_text)))

\* the articles of a text: parse_article on every span of extract_articles
ArticlesOf(text, spans) ==
    [k \in 1..Len(spans) |->
        parse_article(SpanLines(text, spans[k]), spans[k].number, spans[k].title)]

parse_chapter(chapter_text, chapter_num, chapter_title) ==
    [number |-> chapter_num, title |-> chapter_title,
     articles |-> ArticlesOf(chapter_text, extract_articles(chapter_text))]

ChaptersOf(text, spans) ==
    [k \in 1..Len(spans) |->
        parse_chapter(SpanLines(text, spans[k]), spans[k].number, spans[k].title)]

\* re.finditer(r'^\(\d+\)(.+?)(?=\(\d+\)|\Z)', text, re.DOTALL): without
\* re.MULTILINE only a text that starts with "(n)" has a footnote, which runs
\* to the next "(n)" or to the end
RECURSIVE FootnoteEnd(_, _)
FootnoteEnd(text, i) ==
    IF i > Len(text) \/ text[i].kind = "footnote" THEN i - 1 ELSE FootnoteEnd(text, i + 1)

FootnoteText(text, last) ==
    JoinWords(text[1].rest \o AllTokens(SubSeq(text, 2, last), last - 1))

extract_footnotes(text) ==
    IF text = <<>> \/ text[1].kind # "footnote" THEN <<>>
    ELSE IF FootnoteText(text, FootnoteEnd(text, 2)) = <<>> THEN <<>>
         ELSE <<FootnoteText(text, FootnoteEnd(text, 2))>>

\* a title is [len, stripped, words]: its length, its length after strip() and
\* the type words it holds: "law" قانون, "regulation" آیین‌نامه or آیین نامه,
\* "instruction" دستورالعمل, "resolution" مصوبه, "circular" بخشنامه
identify_document_type(title) ==
    IF "law" \in title.words THEN "law"
    ELSE IF "regulation" \in title.words THEN "regulation"
    ELSE IF "instruction" \in title.words THEN "instruction"
    ELSE IF "resolution" \in title.words THEN "resolution"
    ELSE IF "circular" \in title.words THEN "circular"
    ELSE "unknown"

RECURSIVE CountArticles(_, _)
CountArticles(chapters, k) ==
    IF k = 0 THEN 0 ELSE CountArticles(chapters, k - 1) + Len(chapters[k].articles)

\* a count that leaves the standalone articles out
TotalArticlesInChapters(doc) == CountArticles(doc.chapters, Len(doc.chapters))

\* ParsedLegalDocument.total_articles and LegalDocument.total_articles
total_articles(doc) ==
    CountArticles(doc.chapters, Len(doc.chapters)) + Len(doc.standalone_articles)

\* dataclass ParsedLegalDocument(...): no field is validated
ParsedLegalDocument(law_dict, chapters, standalone_articles, footnotes) ==
    [id |-> law_dict.id, title |-> law_dict.title,
     document_type |-> identify_document_type(law_dict.title),
     chapters |-> chapters, standalone_articles |-> standalone_articles,
     footnotes |-> footnotes]

\* standalone articles are extracted only when no chapter was found
StandaloneOf(text, chapters) ==
    IF chapters = <<>> THEN ArticlesOf(text, extract_articles(text)) ELSE <<>>

BuildDocument(law_dict, chapters) ==
    ParsedLegalDocument(law_dict, chapters, StandaloneOf(law_dict.raw_content, chapters),
                        extract_footnotes(law_dict.raw_content))

\* sum of len(article.notes) over a list of articles, and over the articles
\* of a list of chapters
RECURSIVE CountNotes(_, _)
CountNotes(articles, k) ==
    IF k = 0 THEN 0 ELSE CountNotes(articles, k - 1) + Len(articles[k].notes)

RECURSIVE CountChapterNotes(_, _)
CountChapterNotes(chapters, k) ==
    IF k = 0 THEN 0
    ELSE CountChapterNotes(chapters, k - 1)
         + CountNotes(chapters[k].articles, Len(chapters[k].articles))

\* the counters parse_document_from_dict raises on the way to a document
ParsedStats(stats, doc) ==
    [stats EXCEPT
        !.chapters_found = @ + Len(doc.chapters),
        !.articles_extracted = @ + CountArticles(doc.chapters, Len(doc.chapters))
                                 + Len(doc.standalone_articles),
        !.notes_extracted = @ + CountChapterNotes(doc.chapters, Len(doc.chapters))
                              + CountNotes(doc.standalone_articles,
                                           Len(doc.standalone_articles)),
        !.documents_parsed = @ + 1]

Parsed(doc, stats) == [raised |-> FALSE, doc |-> <<doc>>, stats |-> ParsedStats(stats, doc)]

\* parse_document_from_dict: no raw_content raises; the handler counts the
\* error and raises again
parse_document_from_dict(law_dict, stats) ==
    IF law_dict.raw_content = <<>>
    THEN [raised |-> TRUE, doc |-> <<>>,
          stats |-> [stats EXCEPT !.parsing_errors = @ + 1]]
    ELSE Parsed(BuildDocument(law_dict,
                              ChaptersOf(law_dict.raw_content,
                                         extract_chapters(law_dict.raw_content))),
                stats)

\* parse_chapter as a call of its own: self.parsing_stats['articles_extracted']
\* += 1 for every article of the chapter
ChapterStats(stats, chapter) ==
    [stats EXCEPT !.articles_extracted = @ + Len(chapter.articles)]

\* save_parsed_documents: the documents and self.parsing_stats are dumped into
\* output_file; an exception is printed and caught
save_parsed_documents(files, parsed_docs, stats, env) ==
    Written(files, "parsed_documents",
            SaveJson(files.parsed_documents,
                     <<[parsing_stats |-> stats, documents |-> parsed_docs]>>, env))

\* one iteration of the loop of parse_documents_batch: b = [docs, stats]; a
\* document that fails to parse is printed and left out
ParseStep(b, r) ==
    [docs |-> IF r.raised THEN b.docs ELSE b.docs \o r.doc, stats |-> r.stats]

RECURSIVE ParseLoop(_, _, _)
ParseLoop(laws, i, b) ==
    IF i > Len(laws) THEN b
    ELSE ParseLoop(laws, i + 1, ParseStep(b, parse_document_from_dict(laws[i], b.stats)))

\* if output_file: self.save_parsed_documents(parsed_documents, output_file);
\* output is <<>> for no output file and <<env>> for a path
SaveParsed(b, files, output) ==
    [docs |-> b.docs, stats |-> b.stats,
     files |-> IF output = <<>> THEN files
               ELSE save_parsed_documents(files, b.docs, b.stats, output[1])]

\* parse_documents_batch: a file that cannot be loaded ends in the outer
\* handler, which returns []
parse_documents_batch(file, output, stats, files) ==
    IF ~file.readable THEN [docs |-> <<>>, stats |-> stats, files |-> files]
    ELSE SaveParsed(ParseLoop(file.laws, 1, [docs |-> <<>>, stats |-> stats]), files, output)

\* models.LegalDocument(title=...): title_not_empty raises on a blank title and
\* keeps the stripped title otherwise
title_not_empty(title) ==
    IF title.len = 0 \/ title.stripped = 0
    THEN [raised |-> TRUE, doc |-> <<>>]
    ELSE [raised |-> FALSE,
          doc |-> <<[title |-> [title EXCEPT !.len = title.stripped]]>>]

\* models.LegalArticle(content=...): content_not_empty raises on blank content
content_not_empty(content) ==
    IF Strip(content) = <<>>
    THEN [raised |-> TRUE, doc |-> <<>>]
    ELSE [raised |-> FALSE, doc |-> <<[content |-> Strip(content)]>>]

----------------------------------------------------------------------------
(* PersianTextProcessor on characters *)

(* For normalize_persian_text and clean_text a string is the sequence of its *)
(* characters, each one named: "alef" U+0627, "alef_madda" U+0622,           *)
(* "alef_hamza_above" U+0623, "alef_hamza_below" U+0625, "waw" U+0648,       *)
(* "waw_hamza" U+0624, "yeh_arabic" U+064A, "yeh_hamza" U+0626, "yeh_farsi"  *)
(* U+06CC, "hamza" U+0621, "kaf_arabic" U+0643, "keheh" U+06A9,              *)
(* "teh_marbuta" U+0629, "heh" U+0647, the combining marks "maddah" U+0653,  *)
(* "hamza_above" U+0654 and "hamza_below" U+0655, the digits "arabic_0" ...  *)
(* and "persian_0" ..., "beh" U+0628, "space", "newline", the punctuation    *)
(* marks and the parentheses.                                                *)

\* canonical decomposition of a character (Unicode character database)
Decomposition(c) ==
    CASE c = "alef_madda" -> <<"alef", "maddah">>
      [] c = "alef_hamza_above" -> <<"alef", "hamza_above">>
      [] c = "alef_hamza_below" -> <<"alef", "hamza_below">>
      [] c = "waw_hamza" -> <<"waw", "hamza_above">>
      [] c = "yeh_hamza" -> <<"yeh_arabic", "hamza_above">>
      [] OTHER -> <<c>>

\* canonical combining class of a character
CombiningClass(c) ==
    CASE c = "hamza_below" -> 220
      [] c \in {"maddah", "hamza_above"} -> 230
      [] OTHER -> 0

\* primary composite of a starter and a mark; <<>> when there is none
Composite(starter, mark) ==
    CASE starter = "alef" /\ mark = "maddah" -> <<"alef_madda">>
      [] starter = "alef" /\ mark = "hamza_above" -> <<"alef_hamza_above">>
      [] starter = "alef" /\ mark = "hamza_below" -> <<"alef_hamza_below">>
      [] starter = "waw" /\ mark = "hamza_above" -> <<"waw_hamza">>
      [] starter = "yeh_arabic" /\ mark = "hamza_above" -> <<"yeh_hamza">>
      [] OTHER -> <<>>

RECURSIVE Decompose(_, _)
Decompose(text, i) ==
    IF i > Len(text) THEN <<>> ELSE Decomposition(text[i]) \o Decompose(text, i + 1)

\* the places where two marks stand against the canonical order
Misordered(text) ==
    {i \in 1..(Len(text) - 1) :
        /\ CombiningClass(text[i + 1]) > 0
        /\ CombiningClass(text[i]) > CombiningClass(text[i + 1])}

Swap(text, i) ==
    [k \in 1..Len(text) |-> IF k = i THEN text[i + 1]
                            ELSE IF k = i + 1 THEN text[i] ELSE text[k]]

RECURSIVE CanonicalOrder(_)
CanonicalOrder(text) ==
    IF Misordered(text) = {} THEN text
    ELSE CanonicalOrder(Swap(text, CHOOSE i \in Misordered(text) :
                                       \A j \in Misordered(text) : i <= j))

\* canonical composition: out is the text composed so far, starter the place
\* of its last starter (0: none), last_class the class of the last character
\* kept after that starter (0: none kept)
RECURSIVE ComposeFrom(_, _, _, _, _)
ComposeFrom(text, i, out, starter, last_class) ==
    IF i > Len(text) THEN out
    ELSE IF /\ starter > 0
            /\ last_class = 0 \/ last_class < CombiningClass(text[i])
            /\ Composite(out[starter], text[i]) # <<>>
         THEN ComposeFrom(text, i + 1,
                          [k \in 1..Len(out) |->
                              IF k = starter THEN Composite(out[starter], text[i])[1]
                              ELSE out[k]],
                          starter, last_class)
         ELSE IF CombiningClass(text[i]) = 0
              THEN ComposeFrom(text, i + 1, Append(out, text[i]), Len(out) + 1, 0)
              ELSE ComposeFrom(text, i + 1, Append(out, text[i]), starter,
                               CombiningClass(text[i]))

\* unicodedata.normalize('NFKC', text)
NFKC(text) == ComposeFrom(CanonicalOrder(Decompose(text, 1)), 1, <<>>, 0, 0)

ArabicDigits ==
    <<"arabic_0", "arabic_1", "arabic_2", "arabic_3", "arabic_4",
      "arabic_5", "arabic_6", "arabic_7", "arabic_8", "arabic_9">>
PersianDigits ==
    <<"persian_0", "persian_1", "persian_2", "persian_3", "persian_4",
      "persian_5", "persian_6", "persian_7", "persian_8", "persian_9">>

\* self.char_map, in the order of the dict
char_map ==
    << <<"kaf_arabic", "keheh">>, <<"yeh_arabic", "yeh_farsi">>,
       <<"hamza", "yeh_hamza">>, <<"alef_hamza_above", "alef">>,
       <<"alef_hamza_below", "alef">>, <<"alef_madda", "alef">>,
       <<"teh_marbuta", "heh">>, <<"waw_hamza", "waw">>,
       <<"yeh_hamza", "yeh_farsi">> >>
    \o [d \in 1..Len(ArabicDigits) |-> <<ArabicDigits[d], PersianDigits[d]>>]

\* text.replace(old_char, new_char)
Replace(text, old_char, new_char) ==
    [k \in 1..Len(text) |-> IF text[k] = old_char THEN new_char ELSE text[k]]

\* for old_char, new_char in self.char_map.items(): text = text.replace(...)
RECURSIVE ReplaceAll(_, _)
ReplaceAll(text, k) ==
    IF k > Len(char_map) THEN text
    ELSE ReplaceAll(Replace(text, char_map[k][1], char_map[k][2]), k + 1)

\* PersianTextProcessor.normalize_persian_text
normalize_persian_text(text) ==
    IF text = <<>> THEN <<>> ELSE ReplaceAll(NFKC(text), 1)

\* \s
IsSpace(c) == c \in {"space", "newline"}

\* [،؛؟!.]
PunctuationMarks == {"comma", "semicolon", "question", "exclamation", "period"}

\* [()]
Parentheses == {"lparen", "rparen"}

\* the first place from i on that holds no whitespace
RECURSIVE SkipSpaces(_, _)
SkipSpaces(text, i) ==
    IF i <= Len(text) /\ IsSpace(text[i]) THEN SkipSpaces(text, i + 1) ELSE i

\* re.sub(r'\s+', ' ', text)
RECURSIVE CollapseSpaces(_, _)
CollapseSpaces(text, i) ==
    IF i > Len(text) THEN <<>>
    ELSE IF IsSpace(text[i])
         THEN <<"space">> \o CollapseSpaces(text, SkipSpaces(text, i))
         ELSE <<text[i]>> \o CollapseSpaces(text, i + 1)

\* re.sub(r'\s*([marks])\s*', lead + r'\1 ', text), scanning from place i
RECURSIVE Respace(_, _, _, _)
Respace(text, i, marks, lead) ==
    IF i > Len(text) THEN <<>>
    ELSE IF SkipSpaces(text, i) <= Len(text) /\ text[SkipSpaces(text, i)] \in marks
         THEN lead \o <<text[SkipSpaces(text, i)], "space">>
              \o Respace(text, SkipSpaces(text, SkipSpaces(text, i) + 1), marks, lead)
         ELSE <<text[i]>> \o Respace(text, i + 1, marks, lead)

\* text.strip()
StripSpaces(text) ==
    IF \A k \in 1..Len(text) : IsSpace(text[k]) THEN <<>>
    ELSE SubSeq(text,
                CHOOSE a \in 1..Len(text) :
                    ~IsSpace(text[a]) /\ \A k \in 1..(a - 1) : IsSpace(text[k]),
                CHOOSE b \in 1..Len(text) :
                    ~IsSpace(text[b]) /\ \A k \in (b + 1)..Len(text) : IsSpace(text[k]))

\* PersianTextProcessor.clean_text on the characters of a text
CleanText(text) ==
    IF text = <<>> THEN <<>>
    ELSE StripSpaces(
             Respace(Respace(CollapseSpaces(normalize_persian_text(text), 1),
                             1, PunctuationMarks, <<>>),
                     1, Parentheses, <<"space">>))

----------------------------------------------------------------------------
(* Saving the results of the pipeline *)

(* The data of a save are modelled by what json.dump reads of them: whether   *)
(* every value in them can be encoded.                                       *)

\* json.dump(data, f, ...) inside "with open(path, 'w') as f": the encoder
\* writes the text piece by piece, a value it cannot encode and a failed write
\* raise after the pieces before them were written
DumpOutcome(data, serializable, room) ==
    IF serializable /\ room THEN CompleteFile(data) ELSE PartialFile

\* with open(path, 'w', encoding='utf-8') as f: json.dump(data, f, ...)
\* st = [disk, raised]; nothing is written once an earlier statement raised
WriteJson(st, name, data, serializable, env) ==
    IF st.raised THEN st
    ELSE IF ~env.openable THEN [disk |-> st.disk, raised |-> TRUE]
    ELSE [disk |-> Written(st.disk, name, DumpOutcome(data, serializable, env.room)),
          raised |-> ~(serializable /\ env.room)]

\* [doc.dict() for doc in documents]: the dict of a LegalDocument holds
\* created_at, a datetime
DocumentsSerializable(documents) == documents = <<>>

\* [chunk.dict() for chunk in chunks]: the metadata of a chunk is Dict[str, Any]
ChunksSerializable(chunks) == \A k \in 1..Len(chunks) : chunks[k].serializable

\* final_report: 'statistics' is self.pipeline_stats, which holds the
\* datetime objects start_time and end_time
ReportSerializable == FALSE

\* DocumentProcessingPipeline.save_final_report
save_final_report(st, storage) ==
    WriteJson(st, "processing_report", <<"final_report">>, ReportSerializable,
              storage.processing_report)

\* DocumentProcessingPipeline.save_results: the exception is printed and raised again
save_results(files, documents, chunks, metadata, storage) ==
    save_final_report(
        WriteJson(WriteJson(WriteJson([disk |-> files, raised |-> FALSE],
                                      "processed_documents", documents,
                                      DocumentsSerializable(documents),
                                      storage.processed_documents),
                            "chunks", chunks, ChunksSerializable(chunks), storage.chunks),
                  "metadata", <<metadata>>, metadata.serializable, storage.metadata),
        storage)

\* IntelligentChunker.export_chunks: mkdir of the parent directory, then the dump
export_chunks(files, chunks, env) ==
    WriteJson([disk |-> files, raised |-> FALSE], "export", chunks,
              ChunksSerializable(chunks), env)

----------------------------------------------------------------------------
(* Bounds and inputs *)

MaxSize == 24        \* max_chunk_size of the modelled configurations
MinSize == 10        \* min_chunk_size of the modelled configurations
SmallOverlap == 5    \* a chunk_overlap below the divisor
BigOverlap == 15     \* a chunk_overlap above the divisor
ShortWord == 3
MidWord == 7
LongWord == 11
MaxWords == 4        \* words in a content
MaxChapters == 2     \* chapters in a document
MaxArticles == 2     \* articles in a chapter
MaxLoad == 3         \* inputs handed to one instance over its lifetime
MaxParagraphs == 4   \* paragraphs in a DOCX file
MaxLines == 3        \* lines in the raw_content of a law
MaxLaws == 3         \* laws in a file of separated laws
MaxNormalizeChars == 3   \* characters of a text handed to normalize_persian_text
MaxCleanChars == 4       \* characters of a text handed to clean_text
MaxSaved == 1            \* documents and chunks handed to a save
MaxSaves == 2            \* saves of one pipeline
MaxArticleLines == 2     \* lines of a text handed to parse_article alone
MaxBatchLaws == 2        \* laws in a file handed to parse_documents_batch
EvenWord == 8            \* a word length of the chunks handed to add_overlap_to_chunks
MaxOverlapWords == 2     \* words in such a chunk
MaxOverlapChunks == 3    \* chunks in such a list
ScenarioLength == 2400   \* characters of the article content of scenario 3
MinScenarioWord == 5     \* shortest and longest word of the scenario contents
MaxScenarioWord == 24

\* DOCUMENT_CONFIG
DefaultMinChunkSize == 200
DefaultMaxChunkSize == 1000
DefaultChunkOverlap == 100

DefaultConfig ==
    [min |-> DefaultMinChunkSize, max |-> DefaultMaxChunkSize,
     overlap |-> DefaultChunkOverlap]

\* IntelligentChunker(config) takes the three sizes as they are given: a
\* configuration may hold a min_chunk_size above its max_chunk_size
InvertedConfig == [min |-> MaxSize + MinSize, max |-> MaxSize, overlap |-> 0]

Configs == {[min |-> MinSize, max |-> MaxSize, overlap |-> o] :
                o \in {0, SmallOverlap, BigOverlap}}
           \cup {InvertedConfig}

\* the words contents are made of: the last one is longer than max_chunk_size
WordKinds == {[len |-> ShortWord, end |-> FALSE], [len |-> MidWord, end |-> TRUE],
              [len |-> LongWord, end |-> FALSE], [len |-> LongWord + 1, end |-> TRUE],
              [len |-> MaxSize + 2, end |-> FALSE]}

\* all sequences over S of length 0..n
RECURSIVE SeqsUpTo(_, _)
SeqsUpTo(S, n) ==
    IF n = 0 THEN {<<>>}
    ELSE LET shorter == SeqsUpTo(S, n - 1)
         IN shorter \cup {Append(s, x) : s \in {t \in shorter : Len(t) = n - 1}, x \in S}

MkText(kinds) == [i \in 1..Len(kinds) |-> Tok(i, kinds[i].len, kinds[i].end)]

Contents == {Strip(MkText(k)) : k \in SeqsUpTo(WordKinds, MaxWords) \ {<<>>}}

Article(title, content, subsections, notes, bad) ==
    [number |-> "", title |-> title, content |-> content, subsections |-> subsections,
     notes |-> notes, bad |-> bad]

Words(n, len) == Strip([i \in 1..n |-> Tok(i, len, FALSE)])

\* one chunk
ShortArticle == Article(<<>>, Words(1, ShortWord), <<>>, <<>>, FALSE)
\* several chunks: a split main content, the subsection "۱" of core.models and a note
LongArticle ==
    Article(<<Hdr(MidWord)>>, Words(3, LongWord),
            <<[number |-> <<Hdr(1)>>, content |-> Words(1, MidWord),
               type |-> "SubsectionType.NUMBERED"]>>,
            <<[content |-> Words(2, MidWord)]>>, FALSE)
\* an article whose keywords attribute was set to None: chunk_article raises
BadArticle == Article(<<>>, Words(1, ShortWord), <<>>, <<>>, TRUE)

\* article lists: short and long articles in turn, numbered from 1
Alternating(first_long, n) ==
    [i \in 1..n |->
        [(IF (i % 2 = 1) = first_long THEN LongArticle ELSE ShortArticle)
            EXCEPT !.number = ToString(i)]]

\* a chapter has no article, or MaxArticles - 1 or MaxArticles of them
ArticleLists ==
    {Alternating(f, n) : f \in BOOLEAN, n \in {0} \cup (MaxArticles - 1)..MaxArticles}

Doc(id, chapters, standalone, footnotes) ==
    [id |-> id, chapters |-> chapters, standalone_articles |-> standalone,
     footnotes |-> footnotes]

\* documents of one standalone article, over all contents
TextDocs ==
    {Doc(1, <<>>, <<[Article(<<>>, content, <<>>, <<>>, FALSE) EXCEPT !.number = "1"]>>, <<>>) :
        content \in Contents}

\* the subsection types: the members of core.models.SubsectionType and the
\* strs of the parser, with the numbers "۱", "الف" and "-"
SubsectionTypes ==
    {[type |-> "SubsectionType.NUMBERED", number |-> <<Hdr(1)>>],
     [type |-> "SubsectionType.LETTERED", number |-> <<Hdr(3)>>],
     [type |-> "SubsectionType.DASH", number |-> <<Hdr(1)>>],
     [type |-> "numbered", number |-> <<Hdr(1)>>],
     [type |-> "lettered", number |-> <<Hdr(3)>>],
     [type |-> "dash", number |-> <<Hdr(1)>>]}

\* documents of one standalone article with one subsection, over all types
SubsectionDocs ==
    {Doc(1, <<>>,
         <<[Article(<<>>, Words(1, ShortWord),
                    <<[number |-> t.number, content |-> Words(1, MidWord),
                       type |-> t.type]>>, <<>>, FALSE) EXCEPT !.number = "1"]>>,
         <<>>) : t \in SubsectionTypes}

\* titled chapters over all article lists, untitled chapters without articles
\* and with MaxArticles of them
ChapterSet ==
    {[number |-> "1", title |-> <<Hdr(MidWord)>>, articles |-> a] : a \in ArticleLists}
    \cup {[number |-> "1", title |-> <<>>, articles |-> a] :
              a \in {<<>>, Alternating(FALSE, MaxArticles)}}

\* documents built from the models of core.models: every article has content
StructDocs ==
    {Doc(1, chs, sa, fn) :
        chs \in SeqsUpTo(ChapterSet, MaxChapters),
        sa \in {<<>>, Alternating(FALSE, 1), Alternating(TRUE, 2)},
        fn \in {<<>>, <<Words(2, MidWord), Words(4, LongWord)>>}}

\* the titles of law records: "قانون آزمون", "سند آزمون", "" and "   "
Title(len, words) == [len |-> len, stripped |-> len, words |-> words]

LegalTitle == Title(11, {"law"})
PlainTitle == Title(9, {})
EmptyTitle == Title(0, {})
BlankTitle == [len |-> 3, stripped |-> 0, words |-> {}]

\* "آیین‌نامه اجرایی قانون آزمون", "آیین نامه آزمون", "دستورالعمل مصوبه آزمون",
\* "مصوبه و بخشنامه آزمون", "بخشنامه آزمون"
TypedTitles ==
    {Title(28, {"regulation", "law"}), Title(15, {"regulation"}),
     Title(22, {"instruction", "resolution"}), Title(21, {"resolution", "circular"}),
     Title(13, {"circular"})}

Titles == {LegalTitle, PlainTitle, EmptyTitle, BlankTitle} \cup TypedTitles

\* the lines raw contents are made of: "فصل اول", "فصل اول - کلیات", "ماده ۱",
\* "ماده ۱ - متن ماده", "ماده واحده - متن ماده", "تبصره - متن تبصره",
\* "متن مقدمه", "(1) پاورقی"
ChapterLine == [kind |-> "chapter", rest |-> <<>>]
TitledChapterLine == [kind |-> "chapter", rest |-> <<Hdr(5)>>]
ArticleLine == [kind |-> "article", rest |-> <<>>]
TitledArticleLine == [kind |-> "article", rest |-> <<Hdr(3), Hdr(4)>>]
SingleArticleLine == [kind |-> "single", rest |-> <<Hdr(3), Hdr(4)>>]
NoteLine == [kind |-> "note", rest |-> <<Hdr(3), Hdr(5)>>]
ProseLine == [kind |-> "prose", rest |-> <<Hdr(3), Hdr(5)>>]
FootnoteLine == [kind |-> "footnote", rest |-> <<Hdr(6)>>]

LineKinds ==
    {ChapterLine, TitledChapterLine, ArticleLine, TitledArticleLine,
     SingleArticleLine, NoteLine, ProseLine, FootnoteLine}

Texts == SeqsUpTo(LineKinds, MaxLines)

\* lines that start with a subsection marker: "۱ - متن بند", "۱ -",
\* "الف - متن بند", "- متن بند"
NumberedLine == [kind |-> "numbered", rest |-> <<Hdr(3), Hdr(3)>>]
BareNumberedLine == [kind |-> "numbered", rest |-> <<>>]
LetteredLine == [kind |-> "lettered", rest |-> <<Hdr(3), Hdr(3)>>]
DashLine == [kind |-> "dash", rest |-> <<Hdr(3), Hdr(3)>>]

\* the texts handed to parse_article alone
ArticleTexts ==
    SeqsUpTo(LineKinds \cup {NumberedLine, BareNumberedLine, LetteredLine, DashLine},
             MaxArticleLines)

LawDict(id, title, raw_content) == [id |-> id, title |-> title, raw_content |-> raw_content]

Dicts == {LawDict(1, t, x) : t \in Titles, x \in Texts}

ZeroParsingStats ==
    [documents_parsed |-> 0, articles_extracted |-> 0, chapters_found |-> 0,
     notes_extracted |-> 0, parsing_errors |-> 0]

\* what the parser hands to the chunker
ChunkerInput(doc) ==
    Doc(doc.id, doc.chapters, doc.standalone_articles, doc.footnotes)

\* raw contents of laws the parser is run on before chunking
ParsedTexts ==
    {<<TitledArticleLine, ProseLine, TitledArticleLine>>,
     <<FootnoteLine, SingleArticleLine, NoteLine>>,
     <<TitledChapterLine, TitledArticleLine, NoteLine, TitledArticleLine>>,
     <<ChapterLine, TitledArticleLine, TitledChapterLine, ArticleLine, ProseLine>>,
     <<FootnoteLine, TitledChapterLine, ArticleLine, FootnoteLine>>,
     <<ProseLine>>}

ParsedDocs ==
    {ChunkerInput(parse_document_from_dict(LawDict(1, LegalTitle, x),
                                           ZeroParsingStats).doc[1]) :
        x \in ParsedTexts}

\* the documents of the instance-lifetime specification
LifeDocs ==
    {Doc(1, <<>>, Alternating(FALSE, 1), <<Words(1, ShortWord)>>),
     Doc(2, <<[number |-> "1", title |-> <<Hdr(MidWord)>>,
               articles |-> Alternating(TRUE, 1)]>>, <<>>, <<>>),
     Doc(3, <<>>, <<LongArticle, BadArticle>>, <<>>),
     Doc(4, <<[number |-> "1", title |-> <<Hdr(MidWord)>>,
               articles |-> Alternating(TRUE, 1)]>>, <<>>, <<Words(2, MidWord)>>)}

Batches == SeqsUpTo(LifeDocs, MaxLoad)

\* the articles and the chapters handed to chunk_article and chunk_chapter
LifeArticles ==
    {Alternating(FALSE, 1)[1], Alternating(TRUE, 1)[1], [BadArticle EXCEPT !.number = "1"]}

LifeChapters ==
    {[number |-> "1", title |-> <<Hdr(MidWord)>>, articles |-> Alternating(FALSE, 1)],
     [number |-> "1", title |-> <<>>, articles |-> <<LongArticle, BadArticle>>]}

\* scenario 3: one standalone article whose content has ScenarioLength characters,
\* made of words of n characters (the last one takes up the remainder); every
\* period-th word ends a sentence (period 0: no sentence ends)
ScenarioWords(n) == (ScenarioLength + 1) \div (n + 1)
ScenarioRest(n) == (ScenarioLength + 1) % (n + 1)

ScenarioContent(n, period) ==
    Strip([i \in 1..ScenarioWords(n) |->
              Tok(i, IF i = ScenarioWords(n) THEN n + ScenarioRest(n) ELSE n,
                  period > 0 /\ i % period = 0)])

ScenarioPeriods == {0, 10, 15, 25, 40, 100, 150}

Scenario3Docs ==
    {Doc(1, <<>>, <<[Article(<<>>, ScenarioContent(n, p), <<>>, <<>>, FALSE)
                        EXCEPT !.number = "1"]>>, <<>>) :
        n \in MinScenarioWord..MaxScenarioWord, p \in ScenarioPeriods}

\* the paragraphs DOCX files are made of, with the features the splitter reads
Par(len, clean_len, persian, word, title_words, indicators, article) ==
    [len |-> len, clean_len |-> clean_len, persian |-> persian, word |-> word,
     title_words |-> title_words, indicators |-> indicators, article |-> article,
     clause |-> "none", clause_len |-> 0, sep |-> FALSE, raises |-> FALSE]

\* "قانون مقررات انتظامی اعضای علمی دانشگاه ها و موسسات اموزش عالی کشور"
ParTitle == Par(67, 67, 56, 56, {"law"}, {}, FALSE)
\* "ماده ۱ اعضای علمی دانشگاه ها موظف به رعایت مقررات این مصوبه هستند"
ParArticle == Par(65, 65, 53, 53, {}, {"article"}, TRUE)
\* "تبصره این حکم شامل همه اعضا است"
ParNote == Par(31, 31, 25, 25, {}, {"note"}, FALSE)
\* "lorem ipsum dolor sit amet consectetur adipiscing elit sed do eiusmod"
ParLatin == Par(69, 69, 0, 59, {}, {}, FALSE)
\* "**********"
ParSep == [Par(10, 10, 0, 0, {}, {}, FALSE) EXCEPT !.sep = TRUE]
\* "قانون مقررات انتظامی اعضای علمی دانشگاه ها و موسسات اموزش عالی (مصوب ۲۲/۱۲/۱۳۶۴)"
ParDated ==
    [Par(80, 82, 64, 64, {"law"}, {}, FALSE) EXCEPT !.clause = "attached", !.clause_len = 18]
\* "آیین‌نامه اجرایی مقررات انتظامی اعضای علمی دانشگاه ها و موسسات"
ParRegulation == Par(62, 62, 52, 52, {"regulation"}, {}, FALSE)
\* a paragraph on which the processing of its span raises
ParFaulty == [ParTitle EXCEPT !.raises = TRUE]

ParKinds == {ParTitle, ParArticle, ParNote, ParLatin, ParSep, ParDated, ParFaulty}

File(paragraphs) == [readable |-> TRUE, paragraphs |-> paragraphs]

\* a path that python-docx cannot open
UnreadableFile == [readable |-> FALSE, paragraphs |-> <<>>]

\* n one-article laws with a separator line between each two
SeparatedLaws(n) == [i \in 1..(2 * n - 1) |-> IF i % 2 = 1 THEN ParArticle ELSE ParSep]

Files ==
    {File(p) : p \in SeqsUpTo(ParKinds, MaxParagraphs)}
    \cup {File(SeparatedLaws(n)) : n \in 1..MaxLaws}
    \cup {UnreadableFile}

\* the files of the instance-lifetime specification
LifeFiles ==
    {File(<<ParTitle, ParArticle, ParSep, ParDated, ParArticle>>),
     File(<<ParTitle, ParSep, ParNote, ParSep, ParTitle, ParArticle, ParNote>>),
     File(<<ParLatin, ParSep, ParFaulty>>),
     File(<<ParRegulation, ParArticle>>),
     File(<<ParNote>>),
     UnreadableFile}

\* the texts handed to process_individual_law
LifeLawTexts == {<<ParTitle, ParArticle>>, <<ParNote>>, <<ParFaulty>>}

\* the law records, the chapter texts and the files of laws of the
\* instance-lifetime specification of the parser
LifeDicts ==
    {LawDict(1, LegalTitle, <<TitledArticleLine>>),
     LawDict(2, LegalTitle, <<>>),
     LawDict(3, PlainTitle, <<TitledChapterLine, TitledArticleLine, NoteLine, ArticleLine>>)}

LifeChapterTexts ==
    {<<TitledArticleLine>>, <<ProseLine>>,
     <<TitledChapterLine, TitledArticleLine, NoteLine, ArticleLine>>}

LawsFile(laws) == [readable |-> TRUE, laws |-> laws]

\* a path that cannot be opened or does not hold JSON
UnreadableLaws == [readable |-> FALSE, laws |-> <<>>]

LawsFiles == {LawsFile(laws) : laws \in SeqsUpTo(LifeDicts, MaxBatchLaws)} \cup {UnreadableLaws}

\* letters of both sides of char_map, composed letters and combining marks
NormalizeAlphabet ==
    {"alef", "alef_madda", "alef_hamza_above", "alef_hamza_below", "waw", "waw_hamza",
     "yeh_arabic", "yeh_hamza", "yeh_farsi", "hamza", "kaf_arabic",
     "maddah", "hamza_above", "hamza_below"}

NormalizeTexts == SeqsUpTo(NormalizeAlphabet, MaxNormalizeChars)

\* a letter, whitespace, punctuation marks and parentheses
CleanAlphabet == {"beh", "space", "newline", "period", "comma", "lparen", "rparen"}

CleanTexts == SeqsUpTo(CleanAlphabet, MaxCleanChars)

\* chunks as a save reads them
SavedChunks == SeqsUpTo({[serializable |-> b] : b \in BOOLEAN}, MaxSaved)

\* the documents handed to a save, by their ids
SavedDocuments == {[k \in 1..n |-> k] : n \in 0..MaxSaved}

SavedMetadata == {[serializable |-> b] : b \in BOOLEAN}

\* the environment of a file (room is not read of a file that cannot be opened)
Environments == {env \in [openable : BOOLEAN, room : BOOLEAN] : env.openable \/ ~env.room}

\* the storage of a split: an environment for each output file of the splitter
Storages == [SplitterOutputs -> Environments]

\* the storage of save_results: an environment for each file it writes
PipelineStorages == [PipelineOutputs -> Environments]

\* a storage that takes both files
WritableStorage == [name \in SplitterOutputs |-> [openable |-> TRUE, room |-> TRUE]]

NoDisk == [n \in OutputNames |-> AbsentFile]

\* the chunk lists handed to add_overlap_to_chunks: stripped non-empty texts
OverlapWordKinds == {[len |-> n, end |-> FALSE] : n \in {ShortWord, MidWord, EvenWord}}

OverlapContents ==
    {Strip(MkText(k)) : k \in SeqsUpTo(OverlapWordKinds, MaxOverlapWords) \ {<<>>}}

OverlapChunkLists == SeqsUpTo(OverlapContents, MaxOverlapChunks)

----------------------------------------------------------------------------
(* The components as state machines *)

ZeroChunkingStats ==
    [documents_chunked |-> 0, total_chunks_created |-> 0, article_chunks |-> 0,
     note_chunks |-> 0, subsection_chunks |-> 0, combined_chunks |-> 0,
     oversized_chunks |-> 0, undersized_chunks |-> 0]

ZeroProcessingStats ==
    [total_laws_found |-> 0, valid_laws |-> 0, invalid_laws |-> 0,
     extraction_errors |-> 0, processing_time |-> 0]

NoDocument == Doc(0, <<>>, <<>>, <<>>)
NoResult == [raised |-> FALSE, chunks |-> <<>>]
NoSplitResult == [success |-> FALSE, stats |-> ZeroProcessingStats, laws |-> <<>>]
NoParsed == [raised |-> FALSE, doc |-> <<>>]

\* IntelligentChunker(config)
InitChunker(configs) ==
    /\ cfg \in configs
    /\ chunking_stats = ZeroChunkingStats
    /\ document = NoDocument
    /\ result = NoResult
    /\ batch = <<>>
    /\ report = NewReport(0)
    /\ all_chunks = <<>>

\* DocumentSplitter()
InitSplitter ==
    /\ input_file = UnreadableFile
    /\ splitter_laws = <<>>
    /\ processing_stats = ZeroProcessingStats
    /\ split_result = NoSplitResult
    /\ last_law_text = <<>>
    /\ law_metadata = <<>>

\* LegalDocumentParser()
InitParser ==
    /\ parsing_stats = ZeroParsingStats
    /\ last_law_dict = LawDict(0, EmptyTitle, <<>>)
    /\ parsed = NoParsed
    /\ field = <<>>
    /\ validated = NoParsed
    /\ last_article = <<>>
    /\ parsed_article = <<>>
    /\ last_chapter = <<>>
    /\ parsed_chapter = <<>>
    /\ laws_file = <<>>
    /\ parsed_documents = <<>>

InitBoundaries ==
    /\ input_text = <<>>
    /\ boundary_spans = <<>>

InitText ==
    /\ raw_text = <<>>
    /\ processed_text = <<>>

InitOverlap ==
    /\ chunk_texts = <<>>
    /\ overlapped_chunks = <<>>

InitPacking ==
    /\ split_content = <<>>
    /\ split_chunks = <<>>

InitSave ==
    /\ disk = NoDisk
    /\ save_args = <<>>
    /\ save_raised = FALSE

InitWith(configs) ==
    /\ InitChunker(configs)
    /\ InitSplitter
    /\ InitParser
    /\ InitBoundaries
    /\ InitText
    /\ InitSave
    /\ InitOverlap
    /\ InitPacking
    /\ load = 0
    /\ op = "init"

Init == InitWith(Configs)

\* every component built with its defaults
InitDefault == InitWith({DefaultConfig})

\* chunker.chunk_document(doc)
ReturnChunkDocument(doc, r) ==
    /\ document' = doc
    /\ result' = [raised |-> r.raised, chunks |-> r.chunks]
    /\ chunking_stats' = r.stats
    /\ load' = load + 1
    /\ op' = "chunk_document"
    /\ UNCHANGED <<cfg, batch, report, all_chunks>>
    /\ UNCHANGED <<splitter_vars, parser_vars, boundary_vars, text_vars, save_vars, overlap_vars, packing_vars>>

DoChunkDocument(doc) == ReturnChunkDocument(doc, chunk_document(doc, chunking_stats, cfg))

\* chunker.chunk_documents_batch(docs)
ReturnChunkDocumentsBatch(docs, b) ==
    /\ batch' = docs
    /\ all_chunks' = b.all_chunks
    /\ report' = b.report
    /\ chunking_stats' = b.stats
    /\ load' = load + (IF docs = <<>> THEN 1 ELSE Len(docs))
    /\ op' = "chunk_documents_batch"
    /\ UNCHANGED <<cfg, document, result>>
    /\ UNCHANGED <<splitter_vars, parser_vars, boundary_vars, text_vars, save_vars, overlap_vars, packing_vars>>

DoChunkDocumentsBatch(docs) ==
    ReturnChunkDocumentsBatch(docs, chunk_documents_batch(docs, chunking_stats, cfg))

ChunkDocument == load < MaxLoad /\ \E doc \in LifeDocs : DoChunkDocument(doc)

ChunkDocumentsBatch ==
    \E docs \in Batches : load + Len(docs) <= MaxLoad /\ load < MaxLoad
                          /\ DoChunkDocumentsBatch(docs)

\* chunker.chunk_article(article, "1", 0, "1_art0") or
\* chunker.chunk_chapter(chapter, "1", 0, "1_ch0"): the counters of the chunks
\* that were built are raised, also when the call raises after them
ReturnChunkElement(x, name, r) ==
    /\ document' = x
    /\ result' = [raised |-> r.raised, chunks |-> IF r.raised THEN <<>> ELSE r.chunks]
    /\ chunking_stats' = CountMade(chunking_stats, r.chunks)
    /\ load' = load + 1
    /\ op' = name
    /\ UNCHANGED <<cfg, batch, report, all_chunks>>
    /\ UNCHANGED <<splitter_vars, parser_vars, boundary_vars, text_vars, save_vars, overlap_vars, packing_vars>>

ChunkArticle ==
    load < MaxLoad /\ \E article \in LifeArticles :
        ReturnChunkElement(article, "chunk_article",
                           chunk_article(article, 1, 0, <<1, "art", 0>>, cfg))

ChunkChapter ==
    load < MaxLoad /\ \E chapter \in LifeChapters :
        ReturnChunkElement(chapter, "chunk_chapter",
                           chunk_chapter(chapter, 1, 0, <<1, "ch", 0>>, cfg))

Next == ChunkDocument \/ ChunkDocumentsBatch \/ ChunkArticle \/ ChunkChapter

\* one chunker instance over its lifetime
Spec == Init /\ [][Next]_vars

\* chunk_document as a function of the configuration and the document
ChunkAnyDocument ==
    /\ load = 0
    /\ \/ \E doc \in TextDocs : DoChunkDocument(doc)
       \/ \E doc \in StructDocs : DoChunkDocument(doc)
       \/ \E doc \in ParsedDocs : DoChunkDocument(doc)
       \/ \E doc \in SubsectionDocs : DoChunkDocument(doc)

SpecChunk == Init /\ [][ChunkAnyDocument]_vars

\* chunk_document on the documents built from chapters, articles and footnotes
ChunkStructuredDocument == load = 0 /\ \E doc \in StructDocs : DoChunkDocument(doc)

SpecStructured == Init /\ [][ChunkStructuredDocument]_vars

\* scenario 3: a chunker with the default configuration chunks one document
ChunkScenarioDocument == load = 0 /\ \E doc \in Scenario3Docs : DoChunkDocument(doc)

SpecScenario3 == InitDefault /\ [][ChunkScenarioDocument]_vars

\* splitter.split_document(file)
ReturnSplitDocument(file, r) ==
    /\ input_file' = file
    /\ splitter_laws' = r.laws
    /\ processing_stats' = r.stats
    /\ disk' = r.files
    /\ split_result' = r.result
    /\ load' = load + 1
    /\ op' = "split_document"
    /\ UNCHANGED <<last_law_text, law_metadata, save_args, save_raised>>
    /\ UNCHANGED <<chunker_vars, parser_vars, boundary_vars, text_vars, overlap_vars, packing_vars>>

DoSplitDocument(file, elapsed, storage) ==
    ReturnSplitDocument(file,
        split_document(file, splitter_laws, processing_stats, disk, elapsed, storage))

\* split_document as a function of the file, on a storage that takes both files
SplitAnyDocument ==
    load = 0 /\ \E file \in Files : DoSplitDocument(file, 1, WritableStorage)

SpecSplit == InitDefault /\ [][SplitAnyDocument]_vars

\* one splitter instance over its lifetime
SplitDocument ==
    load < MaxLoad /\ \E file \in LifeFiles, elapsed \in 1..2, storage \in Storages :
                          DoSplitDocument(file, elapsed, storage)

\* what a call of the splitter outside split_document leaves
ReturnSplitterCall(name, stats, files) ==
    /\ processing_stats' = stats
    /\ disk' = files
    /\ load' = load + 1
    /\ op' = name
    /\ UNCHANGED <<input_file, splitter_laws, split_result, save_args, save_raised>>
    /\ UNCHANGED <<chunker_vars, parser_vars, boundary_vars, text_vars, overlap_vars, packing_vars>>

\* splitter.process_individual_law(law_text, law_index)
ProcessIndividualLaw ==
    load < MaxLoad /\ \E law_text \in LifeLawTexts, law_index \in 0..1 :
        /\ last_law_text' = <<law_text, law_index>>
        /\ law_metadata' = process_individual_law(law_text, law_index, processing_stats).metadata
        /\ ReturnSplitterCall("process_individual_law",
                process_individual_law(law_text, law_index, processing_stats).stats, disk)

\* splitter.save_individual_laws()
SaveIndividualLaws ==
    load < MaxLoad /\ \E env \in Environments :
        /\ ReturnSplitterCall("save_individual_laws", processing_stats,
                save_individual_laws(disk, splitter_laws, [n \in SplitterOutputs |-> env]))
        /\ UNCHANGED <<last_law_text, law_metadata>>

\* splitter.save_processing_report()
SaveProcessingReport ==
    load < MaxLoad /\ \E env \in Environments :
        /\ ReturnSplitterCall("save_processing_report", processing_stats,
                save_processing_report(disk, processing_stats,
                                       [n \in SplitterOutputs |-> env]))
        /\ UNCHANGED <<last_law_text, law_metadata>>

NextSplitter ==
    SplitDocument \/ ProcessIndividualLaw \/ SaveIndividualLaws \/ SaveProcessingReport

\* parser.parse_document_from_dict(d)
ReturnParseDocumentFromDict(d, r) ==
    /\ last_law_dict' = d
    /\ parsed' = [raised |-> r.raised, doc |-> r.doc]
    /\ parsing_stats' = r.stats
    /\ load' = load + 1
    /\ op' = "parse_document_from_dict"
    /\ UNCHANGED <<field, validated, last_article, parsed_article, last_chapter,
                   parsed_chapter, laws_file, parsed_documents>>
    /\ UNCHANGED <<chunker_vars, splitter_vars, boundary_vars, text_vars, save_vars, overlap_vars, packing_vars>>

\* parse_document_from_dict as a function of the law record, on a new parser
ParseAnyDocument ==
    load = 0 /\ \E d \in Dicts :
                    ReturnParseDocumentFromDict(d, parse_document_from_dict(d, parsing_stats))

\* one parser instance over its lifetime
ParseDocumentFromDict ==
    load < MaxLoad /\ \E d \in LifeDicts :
        ReturnParseDocumentFromDict(d, parse_document_from_dict(d, parsing_stats))

\* parser.parse_chapter(text, "فصل اول", "")
ParseChapter ==
    /\ load < MaxLoad
    /\ \E x \in LifeChapterTexts :
          /\ last_chapter' = x
          /\ parsed_chapter' = <<parse_chapter(x, "chapter", <<>>)>>
          /\ parsing_stats' = ChapterStats(parsing_stats, parse_chapter(x, "chapter", <<>>))
    /\ load' = load + 1
    /\ op' = "parse_chapter"
    /\ UNCHANGED <<last_law_dict, parsed, field, validated, last_article, parsed_article,
                   laws_file, parsed_documents>>
    /\ UNCHANGED <<chunker_vars, splitter_vars, boundary_vars, text_vars, save_vars, overlap_vars, packing_vars>>

\* parser.parse_documents_batch(input_file, output_file)
ReturnParseDocumentsBatch(file, output, b) ==
    /\ laws_file' = <<file, output>>
    /\ parsed_documents' = b.docs
    /\ parsing_stats' = b.stats
    /\ disk' = b.files
    /\ load' = load + (IF file.laws = <<>> THEN 1 ELSE Len(file.laws))
    /\ op' = "parse_documents_batch"
    /\ UNCHANGED <<last_law_dict, parsed, field, validated, last_article, parsed_article,
                   last_chapter, parsed_chapter, save_args, save_raised>>
    /\ UNCHANGED <<chunker_vars, splitter_vars, boundary_vars, text_vars, overlap_vars, packing_vars>>

ParseDocumentsBatch ==
    \E file \in LawsFiles, output \in {<<>>} \cup {<<env>> : env \in Environments} :
        /\ load + Len(file.laws) <= MaxLoad /\ load < MaxLoad
        /\ ReturnParseDocumentsBatch(file, output,
                parse_documents_batch(file, output, parsing_stats, disk))

\* parser.save_parsed_documents(parsed_docs, output_file)
SaveParsedDocuments ==
    /\ load < MaxLoad
    /\ \E env \in Environments :
          disk' = save_parsed_documents(disk, parsed_documents, parsing_stats, env)
    /\ load' = load + 1
    /\ op' = "save_parsed_documents"
    /\ UNCHANGED <<parser_vars, save_args, save_raised>>
    /\ UNCHANGED <<chunker_vars, splitter_vars, boundary_vars, text_vars, overlap_vars, packing_vars>>

NextParserLife ==
    ParseDocumentFromDict \/ ParseChapter \/ ParseDocumentsBatch \/ SaveParsedDocuments

SplitterOps ==
    {"split_document", "process_individual_law", "save_individual_laws",
     "save_processing_report"}

ParserOps ==
    {"parse_document_from_dict", "parse_chapter", "parse_documents_batch",
     "save_parsed_documents"}

\* one component instance over its lifetime: every call of a behaviour is made
\* on the splitter, or every call is made on the parser
NextInstances ==
    \/ op \in SplitterOps \cup {"init"} /\ NextSplitter
    \/ op \in ParserOps \cup {"init"} /\ NextParserLife

SpecInstances == InitDefault /\ [][NextInstances]_vars

\* models.LegalDocument(title=t, ...)
NewLegalDocument ==
    /\ load = 0
    /\ \E t \in Titles :
          /\ field' = t
          /\ validated' = title_not_empty(t)
    /\ load' = load + 1
    /\ op' = "LegalDocument"
    /\ UNCHANGED <<parsing_stats, last_law_dict, parsed, last_article, parsed_article,
                   last_chapter, parsed_chapter, laws_file, parsed_documents>>
    /\ UNCHANGED <<chunker_vars, splitter_vars, boundary_vars, text_vars, save_vars, overlap_vars, packing_vars>>

\* models.LegalArticle(content=x, ...)
NewLegalArticle ==
    /\ load = 0
    /\ \E x \in Contents \cup {<<>>} :
          /\ field' = x
          /\ validated' = content_not_empty(x)
    /\ load' = load + 1
    /\ op' = "LegalArticle"
    /\ UNCHANGED <<parsing_stats, last_law_dict, parsed, last_article, parsed_article,
                   last_chapter, parsed_chapter, laws_file, parsed_documents>>
    /\ UNCHANGED <<chunker_vars, splitter_vars, boundary_vars, text_vars, save_vars, overlap_vars, packing_vars>>

\* parser.parse_article(text, "ماده ۱", "")
ParseArticle ==
    /\ load = 0
    /\ \E x \in ArticleTexts :
          /\ last_article' = x
          /\ parsed_article' = <<parse_article(x, "article", <<>>)>>
    /\ load' = load + 1
    /\ op' = "parse_article"
    /\ UNCHANGED <<parsing_stats, last_law_dict, parsed, field, validated, last_chapter,
                   parsed_chapter, laws_file, parsed_documents>>
    /\ UNCHANGED <<chunker_vars, splitter_vars, boundary_vars, text_vars, save_vars, overlap_vars, packing_vars>>

NextParser == ParseAnyDocument \/ ParseArticle \/ NewLegalDocument \/ NewLegalArticle

\* the construction of documents: by the parser and by the models
SpecParser == InitDefault /\ [][NextParser]_vars

\* one boundary extraction on one text
ReturnSpans(x, name, found) ==
    /\ input_text' = x
    /\ boundary_spans' = found
    /\ load' = load + 1
    /\ op' = name
    /\ UNCHANGED <<chunker_vars, splitter_vars, parser_vars, text_vars, save_vars, overlap_vars, packing_vars>>

\* the (start, end) pairs of the extracted tuples
Bounds(found) == [k \in 1..Len(found) |-> [start |-> found[k].start, end |-> found[k].end]]

IdentifyLawBoundaries ==
    /\ load = 0
    /\ \E file \in Files \ {UnreadableFile} :
          ReturnSpans(file.paragraphs, "identify_law_boundaries",
                      identify_law_boundaries(file.paragraphs))

ExtractChapters ==
    /\ load = 0
    /\ \E x \in Texts : ReturnSpans(x, "extract_chapters", Bounds(extract_chapters(x)))

ExtractArticles ==
    /\ load = 0
    /\ \E x \in Texts : ReturnSpans(x, "extract_articles", Bounds(extract_articles(x)))

NextBoundaries == IdentifyLawBoundaries \/ ExtractChapters \/ ExtractArticles

SpecBoundaries == InitDefault /\ [][NextBoundaries]_vars

\* a new splitter handed a file without paragraphs
SplitEmptyFile ==
    load = 0 /\ \E storage \in Storages : DoSplitDocument(File(<<>>), 1, storage)

NextReports == SplitEmptyFile \/ ChunkDocumentsBatch

\* the splitter on an empty file, and the reports of the batches of a chunker
SpecReports == InitDefault /\ [][NextReports]_vars

\* a PersianTextProcessor call
ReturnText(x, name, y) ==
    /\ raw_text' = x
    /\ processed_text' = y
    /\ load' = load + 1
    /\ op' = name
    /\ UNCHANGED <<chunker_vars, splitter_vars, parser_vars, boundary_vars, save_vars, overlap_vars, packing_vars>>

NormalizePersianText ==
    load = 0 /\ \E x \in NormalizeTexts :
                    ReturnText(x, "normalize_persian_text", normalize_persian_text(x))

CleanAnyText ==
    load = 0 /\ \E x \in CleanTexts : ReturnText(x, "clean_text", CleanText(x))

NextText == NormalizePersianText \/ CleanAnyText

SpecText == InitDefault /\ [][NextText]_vars

\* a save of the pipeline
ReturnSave(args, name, r) ==
    /\ disk' = r.disk
    /\ save_args' = args
    /\ save_raised' = r.raised
    /\ load' = load + 1
    /\ op' = name
    /\ UNCHANGED <<chunker_vars, splitter_vars, parser_vars, boundary_vars, text_vars,
                   overlap_vars, packing_vars>>

SaveResults ==
    load < MaxSaves /\ \E documents \in SavedDocuments, chunks \in SavedChunks,
                          metadata \in SavedMetadata, storage \in PipelineStorages :
        ReturnSave(<<documents, chunks, metadata, storage>>, "save_results",
                   save_results(disk, documents, chunks, metadata, storage))

ExportChunks ==
    load < MaxSaves /\ \E chunks \in SavedChunks, env \in Environments :
        ReturnSave(<<chunks, env>>, "export_chunks", export_chunks(disk, chunks, env))

\* pipeline.save_final_report()
SaveFinalReport ==
    load < MaxSaves /\ \E env \in Environments :
        ReturnSave(<<env>>, "save_final_report",
                   save_final_report([disk |-> disk, raised |-> FALSE],
                                     [processing_report |-> env]))

NextSave == SaveResults \/ ExportChunks \/ SaveFinalReport

SpecSave == InitDefault /\ [][NextSave]_vars

\* chunker.add_overlap_to_chunks(chunks)
AddOverlapToChunks ==
    load = 0 /\ \E chunks \in OverlapChunkLists :
        /\ chunk_texts' = chunks
        /\ overlapped_chunks' = add_overlap_to_chunks(chunks, cfg)
        /\ load' = load + 1
        /\ op' = "add_overlap_to_chunks"
        /\ UNCHANGED <<chunker_vars, splitter_vars, parser_vars, boundary_vars, text_vars,
                       save_vars, packing_vars>>

SpecOverlap == Init /\ [][AddOverlapToChunks]_vars

\* what a splitting helper of the chunker returned for a content
ReturnChunks(content, chunks, name) ==
    /\ split_content' = content
    /\ split_chunks' = chunks
    /\ load' = load + 1
    /\ op' = name
    /\ UNCHANGED <<chunker_vars, splitter_vars, parser_vars, boundary_vars, text_vars,
                   save_vars, overlap_vars>>

\* chunker.split_by_words(content)
SplitByWords ==
    load = 0 /\ \E content \in Contents :
        ReturnChunks(content, split_by_words(content, cfg), "split_by_words")

\* chunker.split_long_content(content, content_type)
SplitLongContent ==
    load = 0 /\ \E content \in Contents :
        ReturnChunks(content, split_long_content(content, cfg), "split_long_content")

NextSplitting == SplitByWords \/ SplitLongContent

SpecSplitting == Init /\ [][NextSplitting]_vars

----------------------------------------------------------------------------
(* Properties of the chunker *)

\* a chunk that is not the last piece of a split unit
NotRemainder(chunk) == chunk.parts = 1 \/ chunk.part < chunk.parts

\* C1: every chunk that chunk_document returns, except the last piece of a
\* split unit, has at most max_chunk_size characters, whatever its type and
\* whether or not overlap was added to it
ChunkSizeInvariant ==
    op = "chunk_document" =>
        \A k \in 1..Len(result.chunks) :
            NotRemainder(result.chunks[k])
                => result.chunks[k].character_count <= cfg.max

\* the chapter (0-based) or standalone article (0-based) a chunk id names
InChapter(chunk) == chunk.id[2] = "ch"
InStandalone(chunk) == chunk.id[2] = "art"

\* number of chunks that chapters before chapter i emitted: the base of chapter i
ChapterBase(chunks, i) ==
    Cardinality({k \in 1..Len(chunks) : InChapter(chunks[k]) /\ chunks[k].id[3] < i})

\* number of chunks emitted before standalone article i
StandaloneBase(chunks, i) ==
    Cardinality({k \in 1..Len(chunks) :
                    \/ InChapter(chunks[k])
                    \/ InStandalone(chunks[k]) /\ chunks[k].id[3] < i})

\* the 0-based index of an article in its chapter, read from its number
ArticleIndex(number) == (CHOOSE n \in 1..MaxArticles : ToString(n) = number) - 1

\* the position the numbering scheme gives to a chunk
ExpectedPosition(chunks, chunk) ==
    IF chunk.chunk_type = "chapter_title" THEN ChapterBase(chunks, chunk.id[3])
    ELSE IF chunk.chunk_type = "footnote" THEN Len(chunks) - 1
    ELSE IF InChapter(chunk)
         THEN ChapterBase(chunks, chunk.id[3]) + ArticleIndex(chunk.legal_references[1]) + 1
         ELSE StandaloneBase(chunks, chunk.id[3])

\* C2: in the chunk list chunk_document returns, positions never decrease in
\* emission order; a title chunk sits at its chapter's base, article k of a
\* chapter at base + k + 1, the next chapter's base is the previous base plus
\* the number of chunks the chapter emitted, and the standalone articles and
\* the footnote chunk follow
PositionMonotonicity ==
    (op = "chunk_document" /\ ~result.raised) =>
        /\ \A i \in 1..Len(result.chunks) : \A j \in (i + 1)..Len(result.chunks) :
              result.chunks[i].position <= result.chunks[j].position
        /\ \A k \in 1..Len(result.chunks) :
              result.chunks[k].position = ExpectedPosition(result.chunks, result.chunks[k])

\* a document whose second chapter, standalone articles and footnotes all gave
\* chunks, one of them a piece of a split unit
PositionWitness ==
    /\ op = "chunk_document"
    /\ \E k \in 1..Len(result.chunks) :
          /\ InChapter(result.chunks[k])
          /\ result.chunks[k].id[3] = 1
          /\ result.chunks[k].chunk_type = "article"
          /\ result.chunks[k].position > 1
    /\ \E k \in 1..Len(result.chunks) : result.chunks[k].parts > 1
    /\ \E k \in 1..Len(result.chunks) : InStandalone(result.chunks[k])
    /\ \E k \in 1..Len(result.chunks) : result.chunks[k].chunk_type = "footnote"

\* word ids at the start of cur repeat the word ids at the end of prev
BeginsWithOverlap(prev, cur) ==
    \E m \in 1..Min(Len(prev), Len(cur)) :
        \A j \in 1..m : cur[j].id = prev[Len(prev) - m + j].id

\* C5: scenario 3: an article of 2400 characters under the default sizes gives
\* at least three chunks of at most 1000 characters, and every chunk from the
\* second on begins with words from the end of the chunk before it
Scenario3Overlap ==
    op = "chunk_document" =>
        /\ Len(result.chunks) >= 3
        /\ \A k \in 1..Len(result.chunks) :
              result.chunks[k].character_count <= DefaultMaxChunkSize
        /\ \A k \in 2..Len(result.chunks) :
              BeginsWithOverlap(result.chunks[k - 1].content, result.chunks[k].content)

\* what chunk_document does with one document on a fresh chunker
Raises(doc) == chunk_document(doc, ZeroChunkingStats, cfg).raised
ChunksAlone(doc) == chunk_document(doc, ZeroChunkingStats, cfg).chunks

RECURSIVE ChunksOfSurvivors(_, _)
ChunksOfSurvivors(docs, k) ==
    IF k = 0 THEN <<>>
    ELSE ChunksOfSurvivors(docs, k - 1)
         \o (IF Raises(docs[k]) THEN <<>> ELSE ChunksAlone(docs[k]))

\* C8: chunk_documents_batch returns for every list of documents; it counts
\* every document as processed or failed, records one error per failure, and
\* returns, in input order, exactly the chunks of the documents that did not
\* fail, each as if the document had been chunked alone
BatchFailureIsolation ==
    op = "chunk_documents_batch" =>
        /\ report.status = "COMPLETED"
        /\ report.total_items = Len(batch)
        /\ report.processed_items + report.failed_items = report.total_items
        /\ Len(report.errors) = report.failed_items
        /\ report.failed_items = Cardinality({k \in 1..Len(batch) : Raises(batch[k])})
        /\ all_chunks = ChunksOfSurvivors(batch, Len(batch))

\* a batch whose first document failed and whose later document gave chunks
BatchFailureWitness ==
    /\ op = "chunk_documents_batch"
    /\ Len(batch) >= 2
    /\ Raises(batch[1])
    /\ ~Raises(batch[Len(batch)])
    /\ report.failed_items >= 1
    /\ all_chunks # <<>>

----------------------------------------------------------------------------
(* Properties of the splitter *)

\* the spans of the last input file and what processing each one alone gives
InputSpans == identify_law_boundaries(input_file.paragraphs)
InputSpanText(i) == SpanText(input_file.paragraphs, InputSpans[i])
SpanRaises(i) == \E k \in 1..Len(InputSpanText(i)) : InputSpanText(i)[k].raises
SpanRecord(i) == process_individual_law(InputSpanText(i), i - 1, ZeroProcessingStats).metadata
Rejected(i) == SpanRecord(i) = <<>> \/ SpanRecord(i)[1].quality_score < QualityThreshold
Emitted(i) == \E k \in 1..Len(splitter_laws) : splitter_laws[k].id = i

\* C3: after split_document every record in the returned laws and in
\* self.laws has a quality score of at least 0.4; a span whose record scores
\* less, or whose processing returned nothing, is counted invalid and is not
\* emitted
QualityGate ==
    op = "split_document" =>
        /\ \A k \in 1..Len(split_result.laws) :
              split_result.laws[k].quality_score >= QualityThreshold
        /\ \A k \in 1..Len(splitter_laws) :
              splitter_laws[k].quality_score >= QualityThreshold
        /\ split_result.success =>
              /\ split_result.laws = splitter_laws
              /\ processing_stats.valid_laws = Len(splitter_laws)
              /\ processing_stats.invalid_laws =
                    Cardinality({i \in 1..Len(InputSpans) : Rejected(i)})
              /\ \A i \in 1..Len(InputSpans) : Rejected(i) => ~Emitted(i)

\* a file of which one span was rejected and another one emitted
QualityGateWitness ==
    /\ op = "split_document"
    /\ split_result.success
    /\ processing_stats.invalid_laws >= 1
    /\ \E i \in 1..Len(InputSpans) : Rejected(i) /\ ~SpanRaises(i)
    /\ splitter_laws # <<>>

\* C9: when the processing of a span raises, extraction_errors counts it once,
\* the span gives no record, every other span is processed as if alone, and
\* split_document returns success with the records of the other spans
RecordFailureIsolation ==
    (op = "split_document" /\ input_file.readable) =>
        /\ split_result.success
        /\ processing_stats.extraction_errors =
              Cardinality({i \in 1..Len(InputSpans) : SpanRaises(i)})
        /\ processing_stats.valid_laws + processing_stats.invalid_laws = Len(InputSpans)
        /\ \A i \in 1..Len(InputSpans) :
              /\ SpanRaises(i) => ~Emitted(i)
              /\ ~SpanRaises(i) => (Emitted(i) <=> ~Rejected(i))
              /\ Emitted(i) =>
                    \E k \in 1..Len(split_result.laws) :
                        split_result.laws[k] = SpanRecord(i)[1]

\* a file whose first span raised and of which a later span gave a record
RecordFailureWitness ==
    /\ op = "split_document"
    /\ processing_stats.extraction_errors >= 1
    /\ \E i, j \in 1..Len(InputSpans) : i < j /\ SpanRaises(i) /\ Emitted(j)

\* the statistics that count events
Counters(stats) == DOMAIN stats \ {"processing_time"}

NonDecreasing(old, new) == \A k \in Counters(old) : new[k] >= old[k]

\* C10: over any sequence of calls on one instance no statistics counter of
\* the splitter, the parser or the chunker ever decreases
CountersMonotone ==
    [][/\ NonDecreasing(processing_stats, processing_stats')
       /\ NonDecreasing(parsing_stats, parsing_stats')
       /\ NonDecreasing(chunking_stats, chunking_stats')]_vars

----------------------------------------------------------------------------
(* Properties of boundary extraction and of document construction *)

\* len(text) of the last boundary extraction
InputLength ==
    IF op = "identify_law_boundaries" THEN TextLength(input_text)
    ELSE RawContentLength(input_text)

\* C4: the spans a boundary extraction returns, for law separators, chapter
\* headers or article headers, are in document order and contiguous, and they
\* cover the text from offset 0 to len(text), the text before the first marker
\* included
BoundaryPartition ==
    (op \in {"identify_law_boundaries", "extract_chapters", "extract_articles"}
     /\ boundary_spans # <<>>) =>
        /\ boundary_spans[1].start = 0
        /\ \A k \in 1..Len(boundary_spans) :
              boundary_spans[k].start <= boundary_spans[k].end
        /\ \A k \in 1..(Len(boundary_spans) - 1) :
              boundary_spans[k].end = boundary_spans[k + 1].start
        /\ boundary_spans[Len(boundary_spans)].end = InputLength

\* the articles of a parsed document
RECURSIVE ChapterArticlesOf(_, _)
ChapterArticlesOf(chapters, k) ==
    IF k = 0 THEN <<>> ELSE ChapterArticlesOf(chapters, k - 1) \o chapters[k].articles

AllArticles(doc) ==
    ChapterArticlesOf(doc.chapters, Len(doc.chapters)) \o doc.standalone_articles

\* C6: no article of a document the parser returns has empty trimmed content,
\* and constructing an article with such content raises
ArticleContentInvariant ==
    /\ (op = "parse_document_from_dict" /\ ~parsed.raised) =>
          \A k \in 1..Len(AllArticles(parsed.doc[1])) :
              Strip(AllArticles(parsed.doc[1])[k].content) # <<>>
    /\ (op = "LegalArticle" /\ Strip(field) = <<>>) => validated.raised

\* C7: constructing a LegalDocument with an empty or whitespace-only title
\* raises, and parsing a law record with such a title fails instead of
\* returning a document
EmptyTitleRejection ==
    /\ (op = "LegalDocument" /\ field.stripped = 0) => validated.raised
    /\ (op = "parse_document_from_dict" /\ last_law_dict.title.stripped = 0) =>
          parsed.raised

----------------------------------------------------------------------------
(* Emission order of the chunker *)

\* chapters come first, then standalone articles, then the footnote chunk
SectionRank(chunk) ==
    IF InChapter(chunk) THEN 0 ELSE IF InStandalone(chunk) THEN 1 ELSE 2

\* main content first, then subsections, then notes
TypeRank(chunk) ==
    CASE chunk.chunk_type = "article" -> 0
      [] chunk.chunk_type = "subsection" -> 1
      [] chunk.chunk_type = "note" -> 2
      [] OTHER -> 0

IsTitleChunk(chunk) == chunk.chunk_type = "chapter_title"
IsArticlePart(chunk) == chunk.chunk_type \in {"article", "subsection", "note"}

\* two chunks of the same chapter, and of the same article
SameChapter(a, b) == InChapter(a) /\ InChapter(b) /\ a.id[3] = b.id[3]

SameArticle(a, b) ==
    /\ IsArticlePart(a) /\ IsArticlePart(b)
    /\ \/ SameChapter(a, b) /\ a.legal_references = b.legal_references
       \/ InStandalone(a) /\ InStandalone(b) /\ a.id[3] = b.id[3]

\* number of title chunks of chapter i (1-based), and of footnote chunks
TitleChunkCount(chunks, i) ==
    Cardinality({k \in 1..Len(chunks) :
                    InChapter(chunks[k]) /\ IsTitleChunk(chunks[k]) /\ chunks[k].id[3] = i - 1})

FootnoteChunkCount(chunks) ==
    Cardinality({k \in 1..Len(chunks) : chunks[k].chunk_type = "footnote"})

\* C11: chunk_document emits the chunks of chapter i before those of chapter
\* i+1, in a chapter the title chunk (there is one iff the title is not empty)
\* before the chunks of its articles in article order, the chapters before the
\* standalone articles in their order, and one footnote chunk iff there are
\* footnotes, as the last chunk; in an article the main-content chunks come
\* before the subsection chunks and these before the note chunks
EmissionOrder ==
    (op = "chunk_document" /\ ~result.raised) =>
        /\ \A k \in 1..Len(result.chunks) : \A l \in (k + 1)..Len(result.chunks) :
                /\ SectionRank(result.chunks[k]) <= SectionRank(result.chunks[l])
                /\ (InChapter(result.chunks[k]) /\ InChapter(result.chunks[l]))
                      => result.chunks[k].id[3] <= result.chunks[l].id[3]
                /\ (InStandalone(result.chunks[k]) /\ InStandalone(result.chunks[l]))
                      => result.chunks[k].id[3] <= result.chunks[l].id[3]
                /\ SameChapter(result.chunks[k], result.chunks[l])
                      => ~IsTitleChunk(result.chunks[l])
                /\ (SameChapter(result.chunks[k], result.chunks[l])
                    /\ IsArticlePart(result.chunks[k]) /\ IsArticlePart(result.chunks[l]))
                      => ArticleIndex(result.chunks[k].legal_references[1])
                            <= ArticleIndex(result.chunks[l].legal_references[1])
                /\ SameArticle(result.chunks[k], result.chunks[l])
                      => TypeRank(result.chunks[k]) <= TypeRank(result.chunks[l])
        /\ \A i \in 1..Len(document.chapters) :
              TitleChunkCount(result.chunks, i)
                  = (IF document.chapters[i].title # <<>> THEN 1 ELSE 0)
        /\ FootnoteChunkCount(result.chunks)
              = (IF document.footnotes # <<>> THEN 1 ELSE 0)
        /\ document.footnotes # <<>>
              => result.chunks[Len(result.chunks)].chunk_type = "footnote"

\* a document with two titled chapters, an article that gave main-content,
\* subsection and note chunks in its second chapter, standalone articles and
\* footnotes
EmissionOrderWitness ==
    /\ op = "chunk_document"
    /\ ~result.raised
    /\ Len(document.chapters) >= 2
    /\ TitleChunkCount(result.chunks, 1) = 1
    /\ TitleChunkCount(result.chunks, 2) = 1
    /\ \E k, l, n \in 1..Len(result.chunks) :
          /\ k < l /\ l < n
          /\ InChapter(result.chunks[k]) /\ result.chunks[k].id[3] = 1
          /\ SameArticle(result.chunks[k], result.chunks[l])
          /\ SameArticle(result.chunks[l], result.chunks[n])
          /\ result.chunks[k].chunk_type = "article"
          /\ result.chunks[l].chunk_type = "subsection"
          /\ result.chunks[n].chunk_type = "note"
    /\ \E k \in 1..Len(result.chunks) : InStandalone(result.chunks[k])
    /\ FootnoteChunkCount(result.chunks) = 1

----------------------------------------------------------------------------
(* Chapters and standalone articles of a parsed document *)

\* a raw content of one line that is an article header
OneArticleHeader(text) == Len(text) = 1 /\ text[1].kind \in {"article", "single"}

\* C12: a parsed document never has both chapters and standalone articles;
\* without chapters its standalone articles are the articles that article
\* extraction finds in the whole text, in order, and a text of one article
\* header gives exactly one standalone article with that header's number;
\* with a chapter there is no standalone article
StandaloneDispatch ==
    (op = "parse_document_from_dict" /\ ~parsed.raised) =>
        /\ parsed.doc[1].chapters = <<>> \/ parsed.doc[1].standalone_articles = <<>>
        /\ extract_chapters(last_law_dict.raw_content) = <<>> =>
              /\ parsed.doc[1].chapters = <<>>
              /\ parsed.doc[1].standalone_articles
                    = ArticlesOf(last_law_dict.raw_content,
                                 extract_articles(last_law_dict.raw_content))
        /\ extract_chapters(last_law_dict.raw_content) # <<>> =>
              parsed.doc[1].standalone_articles = <<>>
        /\ OneArticleHeader(last_law_dict.raw_content) =>
              /\ parsed.doc[1].chapters = <<>>
              /\ Len(parsed.doc[1].standalone_articles) = 1
              /\ parsed.doc[1].standalone_articles[1].number
                    = last_law_dict.raw_content[1].kind

----------------------------------------------------------------------------
(* Ids of the law records *)

\* the paragraphs that begin a law: the first one and each one after a separator
LawStarts(pars) ==
    {i \in 1..Len(pars) : ~pars[i].sep /\ (i = 1 \/ pars[i - 1].sep)}

\* the paragraphs of the law that begins at paragraph i, up to the next separator
LawAt(pars, i) ==
    SubSeq(pars, i, CHOOSE j \in i..Len(pars) :
                        /\ \A k \in i..j : ~pars[k].sep
                        /\ j = Len(pars) \/ pars[j + 1].sep)

\* laws with one separator line between each two, each law with an article
\* marker and a cleaned text of at least min_law_length characters
IsSeparatedLaws(pars) ==
    /\ pars # <<>>
    /\ ~pars[1].sep /\ ~pars[Len(pars)].sep
    /\ \A i \in 1..(Len(pars) - 1) : pars[i].sep => ~pars[i + 1].sep
    /\ \A i \in 1..Len(pars) : ~pars[i].raises
    /\ \A i \in LawStarts(pars) :
          /\ clean_text(LawAt(pars, i)).len >= MinLawLength
          /\ clean_text(LawAt(pars, i)).article

LawCount(pars) == Cardinality(LawStarts(pars))

Ids(laws) == [k \in 1..Len(laws) |-> laws[k].id]

\* C13: the records of one split have pairwise distinct ids, and a file of n
\* laws with a separator line between each two, each law of at least 50
\* characters with an article marker, gives exactly n records, in the order
\* of the file, with the ids law_001 ... law_00n
LawIds ==
    (op = "split_document" /\ input_file.readable) =>
        /\ \A j, k \in 1..Len(splitter_laws) :
              splitter_laws[j].id = splitter_laws[k].id => j = k
        /\ IsSeparatedLaws(input_file.paragraphs) =>
              /\ Ids(splitter_laws) = [k \in 1..LawCount(input_file.paragraphs) |-> k]
              /\ split_result.laws = splitter_laws

\* a file of MaxLaws separated laws, all of them emitted
LawIdsWitness ==
    /\ op = "split_document" /\ input_file.readable
    /\ IsSeparatedLaws(input_file.paragraphs)
    /\ LawCount(input_file.paragraphs) = MaxLaws
    /\ Len(splitter_laws) = MaxLaws

----------------------------------------------------------------------------
(* Properties of the text processor *)

\* C14: normalize_persian_text is idempotent: normalizing its result again
\* changes nothing, for texts with combining marks and with characters of
\* both sides of char_map
NormalizeIdempotent ==
    op = "normalize_persian_text" =>
        normalize_persian_text(processed_text) = processed_text

\* C15: the result of clean_text has no whitespace at its ends and no two
\* whitespace characters in a row, each punctuation mark has no space before
\* it and one space after it unless it ends the text, and each parenthesis
\* has one space on each side except at the ends of the text
CleanOutputFormat ==
    op = "clean_text" =>
        /\ processed_text # <<>> =>
              ~IsSpace(processed_text[1]) /\ ~IsSpace(processed_text[Len(processed_text)])
        /\ \A k \in 1..(Len(processed_text) - 1) :
              ~(IsSpace(processed_text[k]) /\ IsSpace(processed_text[k + 1]))
        /\ \A k \in 1..Len(processed_text) :
              processed_text[k] \in PunctuationMarks =>
                  /\ k > 1 => ~IsSpace(processed_text[k - 1])
                  /\ k < Len(processed_text) => processed_text[k + 1] = "space"
        /\ \A k \in 1..Len(processed_text) :
              processed_text[k] \in Parentheses =>
                  /\ k > 1 => processed_text[k - 1] = "space"
                  /\ k < Len(processed_text) => processed_text[k + 1] = "space"

----------------------------------------------------------------------------
(* Properties of the saves *)

\* C16: every output file is written completely or not at all: whatever
\* happens during a save, no file is left partially written
OutputFileAtomicity ==
    \A n \in OutputNames : disk[n].state \in {"absent", "complete"}

----------------------------------------------------------------------------
(* Empty input *)

\* C17: split_document on a file without paragraphs returns without raising,
\* with no law record and with the found, valid and invalid counts at zero;
\* the success_rate of a report is 0 when total_items is 0 and
\* processed_items / total_items * 100 otherwise
EmptyInput ==
    /\ (input_file.readable /\ input_file.paragraphs = <<>>) =>
          /\ split_result.success
          /\ split_result.laws = <<>> /\ splitter_laws = <<>>
          /\ processing_stats.total_laws_found = 0
          /\ processing_stats.valid_laws = 0
          /\ processing_stats.invalid_laws = 0
    /\ report.total_items = 0 => success_rate(report) = [num |-> 0, den |-> 1]
    /\ report.total_items > 0 =>
          /\ success_rate(report).den > 0
          /\ success_rate(report).num * report.total_items
                = report.processed_items * 100 * success_rate(report).den

\* an empty file was split and an empty batch was reported
EmptyInputWitness ==
    /\ input_file.readable /\ input_file.paragraphs = <<>>
    /\ split_result.success
    /\ op = "chunk_documents_batch"
    /\ batch = <<>>
    /\ report.total_items = 0

----------------------------------------------------------------------------
(* Size bookkeeping of the chunker *)

Oversized(chunks) == {k \in 1..Len(chunks) : chunks[k].character_count > cfg.max}
Undersized(chunks) == {k \in 1..Len(chunks) : chunks[k].character_count < cfg.min}

\* a chunk_document call that returned
ChunkDocumentReturns == op' = "chunk_document" /\ load' = load + 1 /\ ~result'.raised

\* the article, subsection and note chunks the call made are all in the returned list
AllMadeReturned ==
    /\ CountType(result'.chunks, "article")
          = chunking_stats'.article_chunks - chunking_stats.article_chunks
    /\ CountType(result'.chunks, "subsection")
          = chunking_stats'.subsection_chunks - chunking_stats.subsection_chunks
    /\ CountType(result'.chunks, "note")
          = chunking_stats'.note_chunks - chunking_stats.note_chunks

SizeBookkeepingStep ==
    ChunkDocumentReturns =>
        /\ chunking_stats'.oversized_chunks
              = chunking_stats.oversized_chunks + Cardinality(Oversized(result'.chunks))
        /\ chunking_stats'.undersized_chunks
              = chunking_stats.undersized_chunks + Cardinality(Undersized(result'.chunks))
        /\ chunking_stats'.total_chunks_created
              = chunking_stats.total_chunks_created + Len(result'.chunks)
        /\ AllMadeReturned

\* C18: a chunk_document call that returns raises oversized_chunks by the
\* number of returned chunks longer than max_chunk_size, undersized_chunks by
\* the number shorter than min_chunk_size and total_chunks_created by the
\* length of the returned list, and every chunk it made is in that list
SizeBookkeeping == [][SizeBookkeepingStep]_vars

----------------------------------------------------------------------------
(* Article count of a parsed document *)

\* C19: for every document parse_document_from_dict returns, total_articles
\* is the number of articles of its chapters plus the number of its
\* standalone articles
ArticleCountInvariant ==
    (op = "parse_document_from_dict" /\ ~parsed.raised) =>
        total_articles(parsed.doc[1]) = Len(AllArticles(parsed.doc[1]))

\* a parsed document with more than one standalone article
ArticleCountWitness ==
    /\ op = "parse_document_from_dict" /\ ~parsed.raised
    /\ Len(parsed.doc[1].standalone_articles) > 1
    /\ total_articles(parsed.doc[1]) > 1

----------------------------------------------------------------------------
(* Overlap between consecutive chunks *)

\* the last words of a chunk, joined by one space
TailWords(chunk) == JoinWords(PySliceFrom(chunk, OverlapSliceStart(cfg)))

\* tail words of the previous chunk, a space, the chunk
Combined(prev_chunk, chunk) == Glue(TailWords(prev_chunk), 1, chunk)

\* C20: add_overlap_to_chunks returns as many chunks as it was given, leaves
\* the first one unchanged, and makes each later chunk the tail words of the
\* original chunk before it, a space and the chunk exactly when that combined
\* text is no longer than max_chunk_size; so no chunk within max_chunk_size
\* becomes longer than max_chunk_size
OverlapRule ==
    (op = "add_overlap_to_chunks" /\ cfg.overlap > 0) =>
        /\ Len(overlapped_chunks) = Len(chunk_texts)
        /\ chunk_texts # <<>> => overlapped_chunks[1] = chunk_texts[1]
        /\ \A i \in 2..Len(chunk_texts) :
              /\ overlapped_chunks[i] =
                    IF StrLen(Combined(chunk_texts[i - 1], chunk_texts[i])) <= cfg.max
                    THEN Combined(chunk_texts[i - 1], chunk_texts[i])
                    ELSE chunk_texts[i]
              /\ StrLen(chunk_texts[i]) <= cfg.max =>
                    StrLen(overlapped_chunks[i]) <= cfg.max

----------------------------------------------------------------------------
(* Main content of a parsed article *)

\* a raw content of one numbered article: its header line, then lines of prose
ArticleWithProse(text) ==
    /\ Len(text) > 1
    /\ text[1].kind = "article"
    /\ \A i \in 2..Len(text) : text[i].kind = "prose"

\* the prose lines of such a text, whitespace collapsed
ProseOf(text) == JoinWords(AllTokens(SubSeq(text, 2, Len(text)), Len(text) - 1))

\* the whole interior: what follows the marker on the header line, then the prose
InteriorOf(text) == JoinWords(text[1].rest \o ProseOf(text))

\* C21: an article whose interior holds prose that belongs to no note and no
\* subsection is parsed into an article whose main content is that prose with
\* whitespace collapsed, hence not empty, and whose notes and subsections are
\* those of the interior (here none)
MainContentRetained ==
    (/\ op = "parse_document_from_dict" /\ ~parsed.raised
     /\ ArticleWithProse(last_law_dict.raw_content)) =>
        /\ Len(parsed.doc[1].standalone_articles) = 1
        /\ parsed.doc[1].standalone_articles[1].content # <<>>
        /\ parsed.doc[1].standalone_articles[1].content
              \in {Strip(ProseOf(last_law_dict.raw_content)),
                   Strip(InteriorOf(last_law_dict.raw_content))}
        /\ parsed.doc[1].standalone_articles[1].notes = <<>>
        /\ parsed.doc[1].standalone_articles[1].subsections = <<>>

----------------------------------------------------------------------------
(* Titles of the law records *)

\* the span a record was made of
SpanOf(law) == InputSpanText(law.id)

\* the span begins with "<title> (مصوب <date>)"
BeginsWithDatedTitle(span) == span # <<>> /\ span[1].clause # "none"

\* C22: the record of a span that begins with "<title> (مصوب <date>)" has
\* that title and the date of the clause as approval_date, not the unknown
\* sentinel: the title pattern matches the cleaned text of the span
TitleByPattern ==
    (op = "split_document" /\ input_file.readable) =>
        \A k \in 1..Len(splitter_laws) :
            BeginsWithDatedTitle(SpanOf(splitter_laws[k])) =>
                /\ splitter_laws[k].title.kind = "pattern"
                /\ splitter_laws[k].title.len
                      = SpanOf(splitter_laws[k])[1].len - SpanOf(splitter_laws[k])[1].clause_len
                /\ splitter_laws[k].approval_date = "date"

----------------------------------------------------------------------------
(* The quality threshold on spans that pass the length check only *)

\* the cleaned text of a span that reaches scoring: 50 characters or more
ReachesScoring(i) == ~SpanRaises(i) /\ clean_text(InputSpanText(i)).len >= MinLawLength

\* the Persian, the legal structure and the article format checks all fail
FailsContentChecks(cleaned) ==
    /\ ~is_valid_persian_text(cleaned)
    /\ Cardinality(cleaned.indicators) < 2
    /\ ~cleaned.article

\* C23: the threshold filters: a span whose cleaned text has 50 characters
\* or more and that fails the Persian check, the legal keyword check and the
\* article pattern check is scored below 0.4, dropped and counted in
\* invalid_laws
ThresholdFilters ==
    (op = "split_document" /\ input_file.readable) =>
        \A i \in 1..Len(InputSpans) :
            (ReachesScoring(i) /\ FailsContentChecks(clean_text(InputSpanText(i)))) =>
                /\ SpanRecord(i)[1].quality_score < QualityThreshold
                /\ ~Emitted(i)
                /\ processing_stats.invalid_laws > 0

----------------------------------------------------------------------------
(* Length of a title taken from a keyword line *)

\* C25: a title that is a line with a legal document keyword, taken when
\* the title pattern did not match, has at most 100 characters
KeywordTitleLength ==
    (op = "split_document" /\ input_file.readable) =>
        \A k \in 1..Len(splitter_laws) :
            splitter_laws[k].title.kind = "line" =>
                splitter_laws[k].title.len <= TitleCut

----------------------------------------------------------------------------
(* Greedy filling of the chunks of a split content *)

\* the sentence of the content that starts with the word w, or the word itself
UnitStartingWith(w, sentences) ==
    IF \E i \in 1..Len(sentences) : sentences[i][1].id = w.id
    THEN sentences[CHOOSE i \in 1..Len(sentences) : sentences[i][1].id = w.id]
    ELSE <<WithGap(w, 0)>>

\* chunk + " " + unit is longer than max_chunk_size
WouldOverflow(chunk, unit) == StrLen(Glue(chunk, 1, unit)) > cfg.max

\* a chunk is closed only when the next word does not fit
WordsFillGreedily ==
    op = "split_by_words" =>
        \A k \in 1..(Len(split_chunks) - 1) :
            WouldOverflow(split_chunks[k], <<WithGap(split_chunks[k + 1][1], 0)>>)

\* a chunk is closed only when the next sentence does not fit
SentencesFillGreedily ==
    (/\ op = "split_long_content"
     /\ cfg.overlap = 0
     /\ StrLen(split_content) > cfg.max
     /\ Len(split_sentences(split_content)) > 1) =>
        \A k \in 1..(Len(split_chunks) - 1) :
            WouldOverflow(split_chunks[k],
                          UnitStartingWith(split_chunks[k + 1][1],
                                           split_sentences(split_content)))

\* C24: in word packing the next word joins the running chunk whenever the
\* chunk would have at most max_chunk_size characters, the words joined by
\* single spaces, and the running chunk is emitted only when the next word
\* would make it longer; the same holds for the sentences in
\* split_long_content
GreedyFill == WordsFillGreedily /\ SentencesFillGreedily

----------------------------------------------------------------------------
(* Number of overlap words *)

\* chunk_overlap divided by 10, rounded down
OverlapWordCount == cfg.overlap \div OverlapDivisor

\* the last n words of a chunk, all of them when it has fewer
LastWords(chunk, n) ==
    IF n >= Len(chunk) THEN chunk ELSE SubSeq(chunk, Len(chunk) - n + 1, Len(chunk))

\* C26: the number of overlap words taken from the previous chunk is
\* chunk_overlap divided by 10, rounded down; for 0 < chunk_overlap < 10 it is
\* zero and no chunk receives an overlap prefix
OverlapWordsRoundedDown ==
    (op = "add_overlap_to_chunks" /\ cfg.overlap > 0) =>
        \A i \in 2..Len(chunk_texts) :
            IF OverlapWordCount = 0
            THEN overlapped_chunks[i] = chunk_texts[i]
            ELSE overlapped_chunks[i] \in
                    {chunk_texts[i],
                     Glue(JoinWords(LastWords(chunk_texts[i - 1], OverlapWordCount)), 1,
                          chunk_texts[i])}

----------------------------------------------------------------------------
(* Chunk ids as the strings the chunker formats *)

DigitChars == <<"0", "1", "2", "3", "4", "5", "6", "7", "8", "9">>

\* f"{n}"
RECURSIVE Decimal(_)
Decimal(n) ==
    IF n < 10 THEN <<DigitChars[n + 1]>>
    ELSE Append(Decimal(n \div 10), DigitChars[(n % 10) + 1])

\* f"{n:03d}": zeros on the left up to three digits, more digits kept
ZeroPadded(n) ==
    IF Len(Decimal(n)) >= 3 THEN Decimal(n)
    ELSE [i \in 1..(3 - Len(Decimal(n))) |-> "0"] \o Decimal(n)

\* the id string of a chunk: f"{document.id}_footnotes",
\* f"{document.id}_art{i}_{chunk_counter:03d}", f"{document.id}_ch{i}_{chunk_counter:03d}"
\* for a chapter title and f"{document.id}_ch{i}_{chunk_counter}_{chunk_counter:03d}"
\* for the chunk of an article in a chapter
FormatId(id) ==
    IF Len(id) = 2 THEN Decimal(id[1]) \o <<"_", id[2]>>
    ELSE IF Len(id) = 4
         THEN Decimal(id[1]) \o <<"_", id[2]>> \o Decimal(id[3]) \o <<"_">>
              \o ZeroPadded(id[4])
         ELSE Decimal(id[1]) \o <<"_", id[2]>> \o Decimal(id[3]) \o <<"_">>
              \o Decimal(id[4]) \o <<"_">> \o ZeroPadded(id[5])

\* chunk counters below and above the three digits of the format
CounterSamples == {0, 1, 9, 10, 11, 99, 100, 101, 999, 1000, 1001, 9999, 10000}

\* the format of the counter keeps different counters different
CountersStayDistinct ==
    \A a, b \in CounterSamples :
        /\ a # b => ZeroPadded(a) # ZeroPadded(b)
        /\ a # b => FormatId(<<1, "art", 0, a>>) # FormatId(<<1, "art", 0, b>>)
        /\ FormatId(<<1, "ch", a, b>>) # FormatId(<<1, "ch", a, 0, b>>)
        /\ a > 0 => FormatId(<<1, "ch", 1, a, b>>) # FormatId(<<1, "ch", 10 + a, 0, b>>)

\* the chunks of chapter i, of standalone article i, in the order of the list
ChapterChunks(chunks, i) ==
    SelectSeq(chunks, LAMBDA ch : InChapter(ch) /\ ch.id[3] = i)
StandaloneChunks(chunks, i) ==
    SelectSeq(chunks, LAMBDA ch : InStandalone(ch) /\ ch.id[3] = i)

\* the id of a chunk follows from the document id and the place of the chunk:
\* the n-th chunk of a standalone article has counter n - 1; in a chapter the
\* title chunk has counter 0 and the counters of the n-th chunk add up to n - 1
IdFromPlace(doc, chunks) ==
    /\ \A k \in 1..Len(chunks) : chunks[k].id[1] = doc.id
    /\ \A i \in 0..(Len(doc.standalone_articles) - 1) :
          \A n \in 1..Len(StandaloneChunks(chunks, i)) :
              StandaloneChunks(chunks, i)[n].id = <<doc.id, "art", i, n - 1>>
    /\ \A i \in 0..(Len(doc.chapters) - 1) :
          \A n \in 1..Len(ChapterChunks(chunks, i)) :
              LET id == ChapterChunks(chunks, i)[n].id
              IN  IF Len(id) = 4 THEN n = 1 /\ id[4] = 0
                  ELSE id[4] + id[5] = n - 1

\* C27: the ids of the chunks chunk_document returns for one document are
\* pairwise distinct, whatever the chapters, articles, chunks per article
\* (more than 999 included), chapter titles and footnotes; an id is
\* determined by the document id and the place of the chunk alone
ChunkIdsDistinct ==
    /\ CountersStayDistinct
    /\ op = "chunk_document" =>
          /\ Cardinality({FormatId(result.chunks[k].id) : k \in 1..Len(result.chunks)})
                = Len(result.chunks)
          /\ IdFromPlace(document, result.chunks)

\* two titled chapters, the second with an article of several chunks after
\* another article, a standalone article of several chunks and footnotes
ChunkIdsWitness ==
    /\ op = "chunk_document"
    /\ ~result.raised
    /\ TitleChunkCount(result.chunks, 1) = 1
    /\ TitleChunkCount(result.chunks, 2) = 1
    /\ \E k \in 1..Len(result.chunks) :
          /\ InChapter(result.chunks[k]) /\ Len(result.chunks[k].id) = 5
          /\ result.chunks[k].id[3] = 1
          /\ result.chunks[k].id[4] > 1 /\ result.chunks[k].id[5] > 0
    /\ \E k \in 1..Len(result.chunks) :
          InStandalone(result.chunks[k]) /\ result.chunks[k].id[4] > 0
    /\ result.chunks[Len(result.chunks)].chunk_type = "footnote"

----------------------------------------------------------------------------
(* Boundaries of the articles *)

\* the lines of the text that are article headers
ArticleHeaderLines(text) == {i \in 1..Len(text) : text[i].kind \in {"article", "single"}}

\* C28: extract_articles returns exactly one boundary for every article header
\* line, no two boundaries start at the same offset and no span is empty; a
\* header of the single article form gives exactly one article
OneBoundaryPerHeader ==
    op = "extract_articles" =>
        /\ Len(boundary_spans) = Cardinality(ArticleHeaderLines(input_text))
        /\ \A k, l \in 1..Len(boundary_spans) :
              k # l => boundary_spans[k].start # boundary_spans[l].start
        /\ \A k \in 1..Len(boundary_spans) :
              boundary_spans[k].start < boundary_spans[k].end

----------------------------------------------------------------------------
(* The words of a split content *)

\* the words of chunk i that are not its overlap prefix: the words after the
\* last word of the chunk before it
OwnWords(chunks, i) ==
    IF i = 1 THEN chunks[1]
    ELSE SelectSeq(chunks[i], LAMBDA w : w.id > chunks[i - 1][Len(chunks[i - 1])].id)

RECURSIVE WordsOfChunks(_, _)
WordsOfChunks(chunks, n) ==
    IF n = 0 THEN <<>> ELSE WordsOfChunks(chunks, n - 1) \o OwnWords(chunks, n)

\* which words of the content the chunks hold, in the order of the chunks
WordIds(chunks) ==
    [k \in 1..Len(WordsOfChunks(chunks, Len(chunks))) |->
        WordsOfChunks(chunks, Len(chunks))[k].id]

\* C29: for a content longer than max_chunk_size every word of the content is
\* in the chunks split_long_content returns, once and in the order of the
\* content, when the overlap prefix of each chunk is left out; no sentence,
\* however short, is dropped
SplittingKeepsWords ==
    (op = "split_long_content" /\ StrLen(split_content) > cfg.max) =>
        WordIds(split_chunks) = [k \in 1..Len(split_content) |-> split_content[k].id]

----------------------------------------------------------------------------
(* Articles of the whole text *)

\* C30: total_articles of a parsed document is the number of article
\* boundaries that extract_articles finds in the whole text of the document,
\* with chapters or without: an article whose header comes before the first
\* chapter header is in the document
ArticlesOfWholeText ==
    (op = "parse_document_from_dict" /\ ~parsed.raised) =>
        total_articles(parsed.doc[1]) = Len(extract_articles(last_law_dict.raw_content))

====
